---- MODULE Spec2Model ----
(***************************************************************************)
(* Finance tool execution engine of ipai_mcp_finance: the three tools     *)
(* get_trial_balance, create_journal_entry and generate_bir_2307, their   *)
(* shared audit log (mcp.finance.tool.execution) and the per-company      *)
(* configuration (mcp.finance.config).                                    *)
(*                                                                         *)
(* Amounts are fixed-point numbers of cents; NaN is the one float value   *)
(* that is kept apart, because every comparison with it is false.         *)
(* Dates are day numbers 1..MaxDate of one fiscal year.                   *)
(***************************************************************************)
EXTENDS Integers, Sequences, FiniteSets, TLC

VARIABLES
    config,     \* mcp.finance.config rows per company (sequence of rows)
    lock,       \* res.company lock dates: fiscalyear_lock_date, period_lock_date
    registry,   \* technical names of the active rows of mcp.finance.tool
    xlsxwriter, \* whether the optional xlsxwriter library can be imported
    moves,      \* account.move rows of the ledger
    bills,      \* posted and draft vendor bills (account.move, in_invoice)
    partners,   \* res.partner rows of the vendors: vat, name, address
    log,        \* mcp.finance.tool.execution rows (the audit log)
    call,       \* the tool invocation whose response is being returned
    ncalls,     \* number of execute calls made so far
    procs       \* the requests served at the same time, each in a transaction

vars == <<config, lock, registry, xlsxwriter, moves, bills, partners, log, call,
          ncalls, procs>>

(***************************************************************************)
(* Bounds of the model.                                                    *)
(***************************************************************************)
MaxCalls == 1
MaxLines == 2
MaxDate == 3
MaxMoves == 2

(***************************************************************************)
(* Program constants and fixtures of the ledger store.                     *)
(***************************************************************************)
\* BALANCE_TOLERANCE = 0.01, in cents
BALANCE_TOLERANCE == 1

\* float('nan'): the result of float() on 'nan' or on the JSON literal NaN
NaN == -1000000

\* _parse_date input that is missing (None or ''): not date_str
NoDate == 0
\* _parse_date input that strptime rejects
BadDate == -1

\* self.env.company.id, the company of the acting user
EnvCompany == 1
\* an id for which res.company.browse(id).exists() is false
UnknownCompany == 9
\* a second res.company row, never the company of the acting user
OtherCompany == 2
Companies == {EnvCompany, OtherCompany}

\* date.today() and date(date_to.year, 1, 1)
Today == MaxDate
YearStart == NoDate + 1

ToolNames == {"get_trial_balance", "create_journal_entry", "generate_bir_2307"}

\* Account.search(domain, order='code'): the account.account rows in code
\* order, each with its database id, code, account_type and owning company
AccountList ==
    << [id |-> 1, code |-> "1000", account_type |-> "asset",
        company |-> EnvCompany],
       [id |-> 2, code |-> "2000", account_type |-> "liability",
        company |-> EnvCompany],
       [id |-> 3, code |-> "3000", account_type |-> "asset",
        company |-> OtherCompany],
       [id |-> 4, code |-> "4000", account_type |-> "expense",
        company |-> EnvCompany] >>

\* account.account rows
AccountTable == { AccountList[i] : i \in 1..Len(AccountList) }

\* line.get('account'): a code (str), a database id (int), or nothing
Code(c) == [int |-> FALSE, code |-> c, id |-> 0]
Id(n) == [int |-> TRUE, code |-> "", id |-> n]
NoRef == Code("")

\* account.journal rows: code, owning company
JournalTable == { [code |-> "MISC", company |-> EnvCompany] }

\* field defaults of mcp.finance.config
DefaultConfig ==
    [ enable_trial_balance |-> TRUE,
      enable_journal_entry |-> FALSE,
      enable_bir_tools |-> TRUE,
      require_approval_je |-> TRUE,
      max_je_amount |-> 0,
      log_all_queries |-> TRUE ]

(***************************************************************************)
(* Float arithmetic with NaN.                                              *)
(***************************************************************************)
FLt(a, b) == a # NaN /\ b # NaN /\ a < b
FGt(a, b) == a # NaN /\ b # NaN /\ a > b
FEq(a, b) == a # NaN /\ b # NaN /\ a = b
FAdd(a, b) == IF a = NaN \/ b = NaN THEN NaN ELSE a + b
FSub(a, b) == IF a = NaN \/ b = NaN THEN NaN ELSE a - b
FAbs(a) == IF a = NaN THEN NaN ELSE IF a < 0 THEN 0 - a ELSE a

\* sum(line.get(field, 0) for line in move_lines)
RECURSIVE SumField(_, _)
SumField(ls, f) ==
    IF ls = <<>> THEN 0 ELSE FAdd(SumField(Tail(ls), f), Head(ls)[f])

(***************************************************************************)
(* Exceptions: the class name and the message.                             *)
(***************************************************************************)
NoExc == [cls |-> "None", msg |-> ""]
Exc(cls, msg) == [cls |-> cls, msg |-> msg]

(***************************************************************************)
(* Collaborators: res.company, mcp.finance.config, the audit log.          *)
(***************************************************************************)
\* params.get('company_id') or self.env.company.id
CompanyId(params) ==
    IF params.company_id # 0 THEN params.company_id ELSE EnvCompany

\* company.exists()
CompanyExists(company_id) == company_id \in Companies

\* get_config: search([('company_id', '=', company_id)], limit=1), else create
GetConfig(cfg, company_id) ==
    IF cfg[company_id] = <<>> THEN DefaultConfig ELSE cfg[company_id][1]

\* the config table after get_config
ConfigAfterGet(cfg, company_id) ==
    IF cfg[company_id] = <<>>
    THEN [cfg EXCEPT ![company_id] = <<DefaultConfig>>]
    ELSE cfg

\* log_execution: the state stored for the row
LogState(error, state) == IF error # "" THEN "failed" ELSE state

\* log_execution: no row for an unregistered tool; the insert fails when the
\* required company_id references no res.company row; else one row is added
LogExecution(rows, tool_name, company_id, result, error, state) ==
    IF tool_name \notin registry
    THEN [exc |-> NoExc, rows |-> rows]
    ELSE IF ~CompanyExists(company_id)
    THEN [exc |-> Exc("IntegrityError", "company_id"), rows |-> rows]
    ELSE [exc |-> NoExc,
          rows |-> Append(rows,
                     [ tool_id |-> tool_name,
                       company_id |-> company_id,
                       result |-> result,
                       error_message |-> error,
                       state |-> LogState(error, state) ])]

(***************************************************************************)
(* create_journal_entry                                                    *)
(***************************************************************************)
\* _parse_date: None for a missing date, UserError for a malformed one
ParseDate(date_str) ==
    IF date_str = NoDate THEN [exc |-> NoExc, value |-> NoDate]
    ELSE IF date_str = BadDate
    THEN [exc |-> Exc("UserError", "Invalid date format"), value |-> NoDate]
    ELSE [exc |-> NoExc, value |-> date_str]

\* _check_period_lock letting an adviser through the fiscal-year lock as well
CheckPeriodLockAdviserOverride(company_id, je_date, manager) ==
    LET company == lock[company_id] IN
    IF company.fiscalyear_lock_date # NoDate
       /\ je_date <= company.fiscalyear_lock_date
       /\ ~manager
    THEN Exc("UserError", "Period is locked")
    ELSE IF company.period_lock_date # NoDate
            /\ je_date <= company.period_lock_date
            /\ ~manager
    THEN Exc("UserError", "Period is locked for non-advisers")
    ELSE NoExc

\* _check_period_lock without the has_group test of the period lock
CheckPeriodLockNoGroupTest(company_id, je_date, manager) ==
    LET company == lock[company_id] IN
    IF company.fiscalyear_lock_date # NoDate
       /\ je_date <= company.fiscalyear_lock_date
    THEN Exc("UserError", "Period is locked")
    ELSE IF company.period_lock_date # NoDate
            /\ je_date <= company.period_lock_date
    THEN Exc("UserError", "Period is locked for non-advisers")
    ELSE NoExc

\* _check_period_lock
CheckPeriodLock(company_id, je_date, manager) ==
    LET company == lock[company_id] IN
    IF company.fiscalyear_lock_date # NoDate
       /\ je_date <= company.fiscalyear_lock_date
    THEN Exc("UserError", "Period is locked")
    ELSE IF company.period_lock_date # NoDate
            /\ je_date <= company.period_lock_date
            /\ ~manager
    THEN Exc("UserError", "Period is locked for non-advisers")
    ELSE NoExc

\* Account.search([('code', '=', account_ref), ('company_ids', 'in', [company_id])])
AccountSearch(account_ref, company_id) ==
    { a \in AccountTable : a.code = account_ref /\ a.company = company_id }

\* the account of a line with the company filter applied to ids as well
ResolveAccountInCompany(account_ref, company_id) ==
    IF account_ref.int
    THEN { a \in AccountTable :
             a.id = account_ref.id /\ a.company = company_id }
    ELSE AccountSearch(account_ref.code, company_id)

\* "Account can be code or ID": browse(id) for an int, search by code and
\* company otherwise; the records for which exists() holds
ResolveAccount(account_ref, company_id) ==
    IF account_ref.int
    THEN { a \in AccountTable : a.id = account_ref.id }
    ELSE AccountSearch(account_ref.code, company_id)

\* not account_ref: None, '' or the integer 0
NoAccountRef(account_ref) ==
    IF account_ref.int THEN account_ref.id = 0 ELSE account_ref.code = ""

\* the amount checks of one line, in the order of the code
AmountCheck(debit, credit) ==
    IF FLt(debit, 0) \/ FLt(credit, 0)
    THEN Exc("UserError", "debit and credit must be non-negative")
    ELSE IF FGt(debit, 0) /\ FGt(credit, 0)
    THEN Exc("UserError", "cannot have both debit and credit on same line")
    ELSE IF FEq(debit, 0) /\ FEq(credit, 0)
    THEN Exc("UserError", "must have either debit or credit amount")
    ELSE NoExc

\* the body of the loop with the amounts checked before the account
LineCheckAmountsFirst(line, company_id) ==
    IF AmountCheck(line.debit, line.credit).cls # "None"
    THEN AmountCheck(line.debit, line.credit)
    ELSE IF NoAccountRef(line.account)
    THEN Exc("UserError", "account is required")
    ELSE IF ResolveAccount(line.account, company_id) = {}
    THEN Exc("UserError", "account not found")
    ELSE NoExc

\* the body of the loop of _build_move_lines for one line
LineCheck(line, company_id) ==
    IF NoAccountRef(line.account)
    THEN Exc("UserError", "account is required")
    ELSE IF ResolveAccount(line.account, company_id) = {}
    THEN Exc("UserError", "account not found")
    ELSE AmountCheck(line.debit, line.credit)

\* the move line built from a submitted line
MoveLine(line, company_id) ==
    LET account == CHOOSE a \in ResolveAccount(line.account, company_id) : TRUE
    IN [account_id |-> account.id, debit |-> line.debit, credit |-> line.credit]

\* _build_move_lines: the lines built, or the first failure and its line number
RECURSIVE BuildMoveLines(_, _, _, _)
BuildMoveLines(lines, company_id, i, built) ==
    IF i > Len(lines)
    THEN [exc |-> NoExc, line |-> 0, move_lines |-> built]
    ELSE LET e == LineCheck(lines[i], company_id) IN
         IF e.cls # "None"
         THEN [exc |-> e, line |-> i, move_lines |-> <<>>]
         ELSE BuildMoveLines(lines, company_id, i + 1,
                             Append(built, MoveLine(lines[i], company_id)))

\* _validate_balance
ValidateBalance(move_lines) ==
    LET total_debit == SumField(move_lines, "debit")
        total_credit == SumField(move_lines, "credit")
        diff == FAbs(FSub(total_debit, total_credit))
    IN IF FGt(diff, BALANCE_TOLERANCE)
       THEN Exc("ValidationError", "Journal entry is not balanced")
       ELSE NoExc

\* approval decided by the company flag alone, the threshold forgotten
RequiresApprovalFlagOnly(cfg, total_amount) == cfg.require_approval_je

\* execute: "Determine if approval required"
RequiresApproval(cfg, total_amount) ==
    \/ cfg.require_approval_je
    \/ (cfg.max_je_amount > 0 /\ FGt(total_amount, cfg.max_je_amount))

\* auto-post as requested, approval not consulted
AutoPostUnforced(auto_post, requires_approval) == auto_post

\* auto-post never performed
AutoPostNever(auto_post, requires_approval) == FALSE

\* execute: "Auto-post if allowed", after "Force draft if approval required"
AutoPost(auto_post, requires_approval) ==
    LET forced == IF requires_approval THEN FALSE ELSE auto_post
    IN forced /\ ~requires_approval

\* what the try block of execute has done when it ends or raises
JeTrace ==
    [ exc |-> NoExc, flag_checked |-> FALSE, parsed |-> FALSE,
      lock_checked |-> FALSE, engine |-> FALSE, line |-> 0,
      balance_checked |-> FALSE, created |-> FALSE, posted |-> FALSE,
      requires_approval |-> FALSE, total_amount |-> 0, move_lines |-> <<>>,
      je_date |-> NoDate ]

\* the try block of JournalEntryTool.execute after the feature-flag check
JeBody(params, manager, company_id, cfg, t1) ==
    LET t2 == [t1 EXCEPT !.parsed = TRUE]
        d == ParseDate(params.date)
    IN
    IF params.journal_code = ""
    THEN [t2 EXCEPT !.exc = Exc("UserError", "journal_code is required")]
    ELSE IF d.exc.cls # "None"
    THEN [t2 EXCEPT !.exc = d.exc]
    ELSE IF d.value = NoDate
    THEN [t2 EXCEPT !.exc = Exc("UserError", "date is required")]
    ELSE IF params.ref = ""
    THEN [t2 EXCEPT !.exc = Exc("UserError", "ref is required")]
    ELSE IF params.lines = <<>>
    THEN [t2 EXCEPT !.exc = Exc("UserError", "lines is required")]
    ELSE
    LET t3 == [t2 EXCEPT !.lock_checked = TRUE, !.je_date = d.value]
        locked == CheckPeriodLock(company_id, d.value, manager)
    IN
    IF locked.cls # "None"
    THEN [t3 EXCEPT !.exc = locked]
    ELSE IF { j \in JournalTable :
                j.code = params.journal_code /\ j.company = company_id } = {}
    THEN [t3 EXCEPT !.exc = Exc("UserError", "Journal not found")]
    ELSE
    LET b == BuildMoveLines(params.lines, company_id, 1, <<>>)
        t4 == [t3 EXCEPT !.engine = TRUE, !.line = b.line]
    IN
    IF b.exc.cls # "None"
    THEN [t4 EXCEPT !.exc = b.exc]
    ELSE
    LET bal == ValidateBalance(b.move_lines)
        t5 == [t4 EXCEPT !.balance_checked = TRUE]
    IN
    IF bal.cls # "None"
    THEN [t5 EXCEPT !.exc = bal]
    ELSE
    LET total_amount == SumField(b.move_lines, "debit")
        requires_approval == RequiresApproval(cfg, total_amount)
    IN [t5 EXCEPT !.created = TRUE,
                  !.move_lines = b.move_lines,
                  !.total_amount = total_amount,
                  !.requires_approval = requires_approval,
                  !.posted = AutoPost(params.auto_post, requires_approval)]

\* the try block of JournalEntryTool.execute up to the audit-log write
JeTry(params, manager) ==
    LET company_id == CompanyId(params) IN
    IF ~CompanyExists(company_id)
    THEN [JeTrace EXCEPT !.exc = Exc("UserError", "Company not found")]
    ELSE
    LET cfg == GetConfig(config, company_id)
        t1 == [JeTrace EXCEPT !.flag_checked = TRUE]
    IN
    IF ~cfg.enable_journal_entry
    THEN [t1 EXCEPT !.exc = Exc("AccessError", "Journal Entry tool is disabled")]
    ELSE JeBody(params, manager, company_id, cfg, t1)

\* the except block returning the envelope without writing the failure row
HandleNoLog(tool_name, params, e) ==
    [outcome |-> "failure", error_type |-> e.cls, error |-> e.msg, rows |-> log]

\* the except block of execute: write the failure row, return the envelope
Handle(tool_name, params, e) ==
    LET h == LogExecution(log, tool_name, CompanyId(params), <<>>, e.msg,
                          "executed")
    IN IF h.exc.cls # "None"
       THEN [outcome |-> "escaped", error_type |-> h.exc.cls,
             error |-> h.exc.msg, rows |-> log]
       ELSE [outcome |-> "failure", error_type |-> e.cls,
             error |-> e.msg, rows |-> h.rows]

\* the success envelope
Success(rows) ==
    [outcome |-> "success", error_type |-> "", error |-> "", rows |-> rows]

\* state='pending' if requires_approval else 'executed'
JeLogState(requires_approval) ==
    IF requires_approval THEN "pending" ELSE "executed"

(***************************************************************************)
(* Inputs of create_journal_entry.                                         *)
(***************************************************************************)
DateInputs == {NoDate, BadDate} \cup (1..MaxDate)
CompanyInputs == {0, UnknownCompany}

GoodLines ==
    << [account |-> Code("1000"), debit |-> 100, credit |-> 0],
       [account |-> Code("2000"), debit |-> 0, credit |-> 100] >>

\* amounts of every kind on accounts of the company (account references
\* that do not resolve are the inputs of AccountLineInputs and OrderLineInputs)
LineInputs ==
    { [account |-> Code("1000"), debit |-> 100, credit |-> 0],
      [account |-> Code("1000"), debit |-> 101, credit |-> 0],
      [account |-> Code("2000"), debit |-> 0, credit |-> 100],
      [account |-> Code("2000"), debit |-> 0, credit |-> 102],
      [account |-> Code("1000"), debit |-> 100, credit |-> 100],
      [account |-> Code("1000"), debit |-> 0, credit |-> 0],
      [account |-> Code("1000"), debit |-> -100, credit |-> 0],
      [account |-> Code("1000"), debit |-> NaN, credit |-> 0] }

LineSeqs == UNION { [1..n -> LineInputs] : n \in 1..MaxLines }

\* calls that vary the header fields, with no lines or two balanced lines
JeHeaderProbes ==
    [ company_id : CompanyInputs,
      journal_code : {"", "MISC", "NOPE"},
      date : DateInputs,
      ref : {"", "adjustment"},
      lines : {<<>>, GoodLines},
      auto_post : BOOLEAN ]

\* calls with a valid header on an unlocked date that vary the lines
JeLineProbes ==
    [ company_id : {0},
      journal_code : {"MISC"},
      date : {MaxDate},
      ref : {"adjustment"},
      lines : LineSeqs,
      auto_post : BOOLEAN ]

\* account references by code and by id: of the company, of the other
\* company, of no company, and missing
AccountRefs ==
    { Code("1000"), Code("2000"), Code("3000"), Code("9999"), NoRef,
      Id(1), Id(2), Id(3), Id(7), Id(0) }

\* lines with numeric amounts on one side that vary the account reference
AccountLineInputs ==
    { [account |-> a, debit |-> 100, credit |-> 0] : a \in AccountRefs }
      \cup { [account |-> a, debit |-> 0, credit |-> 100] : a \in AccountRefs }

\* calls with a valid header on an unlocked date that vary the accounts
JeAccountProbes ==
    [ company_id : {0},
      journal_code : {"MISC"},
      date : {MaxDate},
      ref : {"adjustment"},
      lines : UNION { [1..n -> AccountLineInputs] : n \in 1..MaxLines },
      auto_post : BOOLEAN ]

\* calls with a valid header whose lines have numeric one-sided amounts
JeFaultProbes ==
    [ company_id : {0},
      journal_code : {"MISC"},
      date : {MaxDate},
      ref : {"adjustment"},
      lines : UNION { [1..n -> { l \in LineInputs :
                                   /\ l.account \in {Code("1000"), Code("2000")}
                                   /\ l.debit + l.credit \in {100, 101, 102} }]
                        : n \in 1..MaxLines },
      auto_post : BOOLEAN ]

\* lines that fail none, one or two of the per-line checks
OrderLineInputs ==
    [ account : {Code("1000"), Code("9999"), NoRef},
      debit : {-100, 0, 100},
      credit : {0, 100} ]

\* calls with a valid header on an unlocked date whose lines fail any checks
JeOrderProbes ==
    [ company_id : {0},
      journal_code : {"MISC"},
      date : {MaxDate},
      ref : {"adjustment"},
      lines : UNION { [1..n -> OrderLineInputs] : n \in 1..MaxLines },
      auto_post : {FALSE} ]

NoCall == [tool |-> "none"]

\* what the ledger engine and the audit store do to one call: nothing, the
\* post action raises an error with a message, the post action raises an
\* exception without message (a failed assert), or the insert of the audit
\* row raises a database error, after which every statement of the
\* transaction fails
Faults == {"none", "post", "assert", "audit"}

\* move.action_post() raising in the try block
PostFault(t, fault) ==
    IF fault \in {"post", "assert"} /\ t.posted
    THEN [t EXCEPT !.posted = FALSE,
                   !.exc = IF fault = "post"
                           THEN Exc("UserError", "action_post refused")
                           ELSE Exc("AssertionError", "")]
    ELSE t

\* JournalEntryTool.execute, for the calls, acting identities and faults given
JournalEntryExecute(calls, identities, faults) ==
    /\ call.tool = "none"
    /\ ncalls < MaxCalls
    /\ \E params \in calls, manager \in identities, fault \in faults :
         \E t \in {PostFault(JeTry(params, manager), fault)} :
           LET company_id == CompanyId(params)
               move == [ id |-> Len(moves) + 1,
                         company_id |-> company_id,
                         date |-> t.je_date,
                         line_ids |-> t.move_lines,
                         state |-> IF t.posted THEN "posted" ELSE "draft" ]
               aborted == fault = "audit" /\ t.exc.cls = "None"
               s == IF t.exc.cls # "None"
                    THEN [exc |-> t.exc, rows |-> log]
                    ELSE IF aborted
                    THEN [exc |-> Exc("DatabaseError", "audit insert"),
                          rows |-> log]
                    ELSE LogExecution(log, "create_journal_entry", company_id,
                                      <<move.id, t.total_amount>>, "",
                                      JeLogState(t.requires_approval))
               r == IF s.exc.cls = "None"
                    THEN Success(s.rows)
                    ELSE IF aborted
                    THEN [outcome |-> "escaped", error_type |-> s.exc.cls,
                          error |-> s.exc.msg, rows |-> log]
                    ELSE Handle("create_journal_entry", params, s.exc)
               \* an exception that leaves execute rolls the transaction back
               kept == r.outcome # "escaped"
           IN /\ moves' = IF t.created /\ kept THEN Append(moves, move)
                          ELSE moves
              /\ config' = IF t.flag_checked /\ kept
                           THEN ConfigAfterGet(config, company_id)
                           ELSE config
              /\ log' = r.rows
              /\ call' = [ tool |-> "create_journal_entry",
                           params |-> params,
                           manager |-> manager,
                           fault |-> fault,
                           trace |-> t,
                           outcome |-> r.outcome,
                           error_type |-> r.error_type,
                           error |-> r.error,
                           logged |-> Len(r.rows) - Len(log),
                           persisted |-> Len(moves') - Len(moves),
                           state |-> move.state,
                           requires_approval |-> t.requires_approval ]
              /\ ncalls' = ncalls + 1
    /\ UNCHANGED <<lock, registry, xlsxwriter, bills, partners, procs>>

(***************************************************************************)
(* get_trial_balance                                                       *)
(***************************************************************************)
\* one column of one move line: aml.balance is debit - credit
LineAmount(l, f) == IF f = "balance" THEN FSub(l.debit, l.credit) ELSE l[f]

\* SUM(column) over the lines of one move that are booked on the account
RECURSIVE LinesSum(_, _, _)
LinesSum(ls, account_id, f) ==
    IF ls = <<>> THEN 0
    ELSE IF Head(ls).account_id = account_id
         THEN FAdd(LinesSum(Tail(ls), account_id, f), LineAmount(Head(ls), f))
         ELSE LinesSum(Tail(ls), account_id, f)

\* the WHERE clause without the test of the posted state
InQueryAnyState(m, company_id, date_from, date_to) ==
    /\ m.company_id = company_id
    /\ m.date >= date_from
    /\ m.date <= date_to

\* the WHERE clause of the aggregation query
InQuery(m, company_id, date_from, date_to) ==
    /\ m.company_id = company_id
    /\ m.date >= date_from
    /\ m.date <= date_to
    /\ m.state = "posted"

\* COALESCE(SUM(column), 0) for one account, 0 when it has no row
RECURSIVE AccountSum(_, _, _, _, _, _)
AccountSum(ms, account_id, f, company_id, date_from, date_to) ==
    IF ms = <<>> THEN 0
    ELSE IF InQuery(Head(ms), company_id, date_from, date_to)
         THEN FAdd(AccountSum(Tail(ms), account_id, f, company_id, date_from,
                              date_to),
                   LinesSum(Head(ms).line_ids, account_id, f))
         ELSE AccountSum(Tail(ms), account_id, f, company_id, date_from, date_to)

\* "Skip zero balances if not requested"
KeepRow(include_zero, balance) == ~(~include_zero /\ FEq(balance, 0))

\* the search domain of _get_trial_balance: the company, and the account
\* types when the filter is not empty
InDomain(account, company_id, account_types) ==
    /\ account.company = company_id
    /\ (account_types = {} \/ account.account_type \in account_types)

\* Account.search(domain, order='code')
RECURSIVE SearchAccounts(_, _, _)
SearchAccounts(accounts, company_id, account_types) ==
    IF accounts = <<>> THEN <<>>
    ELSE IF InDomain(Head(accounts), company_id, account_types)
         THEN <<Head(accounts)>>
                  \o SearchAccounts(Tail(accounts), company_id, account_types)
         ELSE SearchAccounts(Tail(accounts), company_id, account_types)

\* totals_by_account.get(account.id, zeros) and the row built from it
TbRow(account, company_id, date_from, date_to) ==
    [ account_id |-> account.id,
      code |-> account.code,
      account_type |-> account.account_type,
      debit |-> AccountSum(moves, account.id, "debit",
                           company_id, date_from, date_to),
      credit |-> AccountSum(moves, account.id, "credit",
                            company_id, date_from, date_to),
      balance |-> AccountSum(moves, account.id, "balance",
                             company_id, date_from, date_to) ]

\* totals[column] += amounts[column]
AddTotals(totals, row) ==
    [ debit |-> FAdd(totals.debit, row.debit),
      credit |-> FAdd(totals.credit, row.credit),
      balance |-> FAdd(totals.balance, row.balance) ]

\* the loop with the totals accumulated before the zero-balance skip
RECURSIVE TbLoopTotalsBeforeSkip(_, _, _, _, _, _, _)
TbLoopTotalsBeforeSkip(accounts, company_id, date_from, date_to, include_zero, rows, totals) ==
    IF accounts = <<>> THEN [accounts |-> rows, totals |-> totals]
    ELSE LET row == TbRow(Head(accounts), company_id, date_from, date_to)
             kept == IF KeepRow(include_zero, row.balance)
                     THEN Append(rows, row) ELSE rows
         IN TbLoopTotalsBeforeSkip(Tail(accounts), company_id, date_from,
                                   date_to, include_zero, kept,
                                   AddTotals(totals, row))

\* "Build result rows": the loop over the accounts found, a skipped account
\* adding neither a row nor anything to the totals
RECURSIVE TbLoop(_, _, _, _, _, _, _)
TbLoop(accounts, company_id, date_from, date_to, include_zero, rows, totals) ==
    IF accounts = <<>> THEN [accounts |-> rows, totals |-> totals]
    ELSE LET row == TbRow(Head(accounts), company_id, date_from, date_to)
         IN IF ~KeepRow(include_zero, row.balance)
            THEN TbLoop(Tail(accounts), company_id, date_from, date_to,
                        include_zero, rows, totals)
            ELSE TbLoop(Tail(accounts), company_id, date_from, date_to,
                        include_zero, Append(rows, row),
                        AddTotals(totals, row))

\* _get_trial_balance
GetTrialBalance(company_id, date_from, date_to, account_types, include_zero) ==
    TbLoop(SearchAccounts(AccountList, company_id, account_types),
           company_id, date_from, date_to, include_zero,
           <<>>, [debit |-> 0, credit |-> 0, balance |-> 0])

NoData == [accounts |-> <<>>, totals |-> [debit |-> 0, credit |-> 0, balance |-> 0]]

TbTrace ==
    [ exc |-> NoExc, flag_checked |-> FALSE, parsed |-> FALSE,
      engine |-> FALSE, date_from |-> NoDate, date_to |-> NoDate,
      data |-> NoData ]

\* the try block of TrialBalanceTool.execute after the feature-flag check
TbBody(params, company_id, t1) ==
    LET t2 == [t1 EXCEPT !.parsed = TRUE]
        f == ParseDate(params.date_from)
        u == ParseDate(params.date_to)
    IN
    IF f.exc.cls # "None" THEN [t2 EXCEPT !.exc = f.exc]
    ELSE IF u.exc.cls # "None" THEN [t2 EXCEPT !.exc = u.exc]
    ELSE
    LET date_to == IF u.value = NoDate THEN Today ELSE u.value
        date_from == IF f.value = NoDate THEN YearStart ELSE f.value
        t3 == [t2 EXCEPT !.date_from = date_from, !.date_to = date_to]
    IN
    IF date_from > date_to
    THEN [t3 EXCEPT !.exc = Exc("UserError", "date_from must be before date_to")]
    ELSE [t3 EXCEPT !.engine = TRUE,
                    !.data = GetTrialBalance(company_id, date_from, date_to,
                                             params.account_types,
                                             params.include_zero)]

\* the try block with the dates parsed before the feature flag is checked
TbTryParseFirst(params) ==
    LET company_id == CompanyId(params) IN
    IF ~CompanyExists(company_id)
    THEN [TbTrace EXCEPT !.exc = Exc("UserError", "Company not found")]
    ELSE
    LET cfg == GetConfig(config, company_id)
        t1 == [TbTrace EXCEPT !.flag_checked = TRUE]
        f == ParseDate(params.date_from)
        u == ParseDate(params.date_to)
    IN
    IF f.exc.cls # "None" THEN [t1 EXCEPT !.parsed = TRUE, !.exc = f.exc]
    ELSE IF u.exc.cls # "None" THEN [t1 EXCEPT !.parsed = TRUE, !.exc = u.exc]
    ELSE IF ~cfg.enable_trial_balance
    THEN [t1 EXCEPT !.parsed = TRUE,
                    !.exc = Exc("AccessError", "Trial Balance tool is disabled")]
    ELSE TbBody(params, company_id, t1)

\* the try block of TrialBalanceTool.execute up to the audit-log write
TbTry(params) ==
    LET company_id == CompanyId(params) IN
    IF ~CompanyExists(company_id)
    THEN [TbTrace EXCEPT !.exc = Exc("UserError", "Company not found")]
    ELSE
    LET cfg == GetConfig(config, company_id)
        t1 == [TbTrace EXCEPT !.flag_checked = TRUE]
    IN
    IF ~cfg.enable_trial_balance
    THEN [t1 EXCEPT !.exc = Exc("AccessError", "Trial Balance tool is disabled")]
    ELSE TbBody(params, company_id, t1)

TbParams ==
    [ company_id : CompanyInputs,
      date_from : DateInputs,
      date_to : DateInputs,
      account_types : {{}, {"asset"}},
      include_zero : BOOLEAN ]

\* posted and draft moves of the ledger, however they were entered
LedgerLines ==
    { << [account_id |-> 1, debit |-> 100, credit |-> 0],
         [account_id |-> 2, debit |-> 0, credit |-> 100] >>,
      << [account_id |-> 4, debit |-> 100, credit |-> 0],
         [account_id |-> 4, debit |-> 0, credit |-> 100] >>,
      << [account_id |-> 4, debit |-> 50, credit |-> 0],
         [account_id |-> 1, debit |-> 0, credit |-> 50] >> }

LedgerMoves ==
    [ company_id : {EnvCompany},
      date : 1..MaxDate,
      line_ids : LedgerLines,
      state : {"posted"} ]
      \cup [ company_id : {EnvCompany},
             date : {MaxDate},
             line_ids : { << [account_id |-> 1, debit |-> 100, credit |-> 0],
                             [account_id |-> 2, debit |-> 0, credit |-> 100] >> },
             state : {"draft"} ]
      \cup [ company_id : {OtherCompany},
             date : {MaxDate},
             line_ids : { << [account_id |-> 3, debit |-> 70, credit |-> 0],
                             [account_id |-> 3, debit |-> 0, credit |-> 30] >> },
             state : {"posted"} ]

\* the rows of account.move carry no order of their own: one listing per
\* content, by date, then first account and amount, then state
MoveKey(move) ==
    move.date * 10000 + move.line_ids[1].account_id * 1000
      + move.line_ids[1].debit * 2 + (IF move.state = "draft" THEN 1 ELSE 0)

Ledgers ==
    { l \in UNION { [1..n -> LedgerMoves] : n \in 0..MaxMoves } :
        \A i \in 1..(Len(l) - 1) : MoveKey(l[i]) <= MoveKey(l[i + 1]) }

\* queries of the ledger with well-formed dates
TbLedgerParams ==
    [ company_id : {0},
      date_from : {NoDate} \cup (1..MaxDate),
      date_to : {NoDate} \cup (1..MaxDate),
      account_types : {{}, {"asset", "expense"}},
      include_zero : BOOLEAN ]

\* TrialBalanceTool.execute, for the calls given
TrialBalanceExecute(calls) ==
    /\ call.tool = "none"
    /\ ncalls < MaxCalls
    /\ \E params \in calls :
         \E t \in {TbTry(params)} :
           LET company_id == CompanyId(params)
               s == IF t.exc.cls # "None"
                    THEN [exc |-> t.exc, rows |-> log]
                    ELSE IF GetConfig(config, company_id).log_all_queries
                    THEN LogExecution(log, "get_trial_balance", company_id,
                                      <<Len(t.data.accounts)>>, "", "executed")
                    ELSE [exc |-> NoExc, rows |-> log]
               r == IF s.exc.cls = "None"
                    THEN Success(s.rows)
                    ELSE Handle("get_trial_balance", params, s.exc)
           IN /\ config' = IF t.flag_checked
                           THEN ConfigAfterGet(config, company_id)
                           ELSE config
              /\ log' = r.rows
              /\ call' = [ tool |-> "get_trial_balance",
                           params |-> params,
                           trace |-> t,
                           outcome |-> r.outcome,
                           error_type |-> r.error_type,
                           error |-> r.error,
                           logged |-> Len(r.rows) - Len(log) ]
              /\ ncalls' = ncalls + 1
    /\ UNCHANGED <<lock, registry, xlsxwriter, moves, bills, partners, procs>>

(***************************************************************************)
(* generate_bir_2307                                                       *)
(***************************************************************************)
\* calendar dates of the vendor bills: year, month, day
DateLe(a, b) ==
    \/ a.y < b.y
    \/ (a.y = b.y /\ a.m < b.m)
    \/ (a.y = b.y /\ a.m = b.m /\ a.d <= b.d)

IsLeap(y) == (y % 4 = 0 /\ y % 100 # 0) \/ y % 400 = 0

\* calendar.monthrange(year, month)[1]
LastDay(y, m) ==
    IF m = 2 THEN (IF IsLeap(y) THEN 29 ELSE 28)
    ELSE IF m \in {4, 6, 9, 11} THEN 30 ELSE 31

\* text is a sequence of characters
Digits == {"0", "1", "2", "3", "4", "5", "6", "7", "8", "9"}
DigitSeq == <<"0", "1", "2", "3", "4", "5", "6", "7", "8", "9">>
DigitValue(c) == (CHOOSE i \in 1..10 : DigitSeq[i] = c) - 1

\* period.split('-Q'): the parts between the occurrences of '-Q'
RECURSIVE Split(_, _, _)
Split(text, part, parts) ==
    IF text = <<>> THEN Append(parts, part)
    ELSE IF Len(text) >= 2 /\ text[1] = "-" /\ text[2] = "Q"
         THEN Split(SubSeq(text, 3, Len(text)), <<>>, Append(parts, part))
         ELSE Split(Tail(text), Append(part, Head(text)), parts)

\* str.strip() as int() applies it: leading and trailing blanks removed
RECURSIVE StripLeft(_)
StripLeft(text) ==
    IF text # <<>> /\ Head(text) = " " THEN StripLeft(Tail(text)) ELSE text

RECURSIVE StripRight(_)
StripRight(text) ==
    IF text # <<>> /\ text[Len(text)] = " "
    THEN StripRight(SubSeq(text, 1, Len(text) - 1))
    ELSE text

\* the value of a run of decimal digits
RECURSIVE DigitsValue(_, _)
DigitsValue(text, acc) ==
    IF text = <<>> THEN acc
    ELSE DigitsValue(Tail(text), 10 * acc + DigitValue(Head(text)))

\* int(text): blanks around, an optional sign, then decimal digits;
\* ValueError otherwise
IntOf(text) ==
    LET t == StripRight(StripLeft(text))
        signed == t # <<>> /\ Head(t) \in {"+", "-"}
        body == IF signed THEN Tail(t) ELSE t
    IN IF body = <<>> \/ \E i \in 1..Len(body) : body[i] \notin Digits
       THEN [ok |-> FALSE, value |-> 0]
       ELSE [ok |-> TRUE,
             value |-> IF signed /\ Head(t) = "-"
                       THEN 0 - DigitsValue(body, 0)
                       ELSE DigitsValue(body, 0)]

NoYmd == [y |-> 0, m |-> 0, d |-> 0]
InvalidPeriod ==
    [exc |-> Exc("UserError", "Invalid period format"),
     date_from |-> NoYmd, date_to |-> NoYmd]

\* _parse_quarter: any exception of the unpacking, of int(), of the quarter
\* test or of date() becomes the UserError
ParseQuarter(period) ==
    LET parts == Split(period, <<>>, <<>>) IN
    IF Len(parts) # 2 THEN InvalidPeriod
    ELSE LET year == IntOf(parts[1])
             quarter == IntOf(parts[2])
         IN IF ~year.ok \/ ~quarter.ok THEN InvalidPeriod
            ELSE IF quarter.value < 1 \/ quarter.value > 4 THEN InvalidPeriod
            ELSE IF year.value < 1 \/ year.value > 9999 THEN InvalidPeriod
            ELSE LET start_month == 3 * quarter.value - 2
                     end_month == 3 * quarter.value
                 IN [exc |-> NoExc,
                     date_from |-> [y |-> year.value, m |-> start_month, d |-> 1],
                     date_to |-> [y |-> year.value, m |-> end_month,
                                  d |-> IF end_month = 12 THEN 31
                                        ELSE LastDay(year.value, end_month)]]

\* the letters, for str.lower() and str.upper()
Lowercase ==
    <<"a", "b", "c", "d", "e", "f", "g", "h", "i", "j", "k", "l", "m">>
      \o <<"n", "o", "p", "q", "r", "s", "t", "u", "v", "w", "x", "y", "z">>
Uppercase ==
    <<"A", "B", "C", "D", "E", "F", "G", "H", "I", "J", "K", "L", "M">>
      \o <<"N", "O", "P", "Q", "R", "S", "T", "U", "V", "W", "X", "Y", "Z">>

\* str.lower() and str.upper(), character by character
Lower(text) ==
    [ i \in 1..Len(text) |->
        IF \E k \in 1..26 : Uppercase[k] = text[i]
        THEN Lowercase[CHOOSE k \in 1..26 : Uppercase[k] = text[i]]
        ELSE text[i] ]
Upper(text) ==
    [ i \in 1..Len(text) |->
        IF \E k \in 1..26 : Lowercase[k] = text[i]
        THEN Uppercase[CHOOSE k \in 1..26 : Lowercase[k] = text[i]]
        ELSE text[i] ]

\* word in text
Contains(text, word) ==
    \E i \in 0..(Len(text) - Len(word)) :
        SubSeq(text, i + 1, i + Len(word)) = word

\* account.tax rows used on the vendor bills
\* 'Expanded Withholding Tax', 'EWT Professional 10%'
TaxEwtProfessional ==
    [description |-> <<"E", "x", "p", "a", "n", "d", "e", "d", " ", "W", "i", "t", "h", "h", "o", "l", "d", "i", "n", "g", " ", "T", "a", "x">>,
     name |-> <<"E", "W", "T", " ", "P", "r", "o", "f", "e", "s", "s", "i", "o", "n", "a", "l", " ", "1", "0", "%">>,
     amount |-> -10]
\* no description, 'WC020 Rental'
TaxRental ==
    [description |-> <<>>,
     name |-> <<"W", "C", "0", "2", "0", " ", "R", "e", "n", "t", "a", "l">>,
     amount |-> -5]
\* 'Value Added Tax', 'VAT 12%'
TaxVat ==
    [description |-> <<"V", "a", "l", "u", "e", " ", "A", "d", "d", "e", "d", " ", "T", "a", "x">>,
     name |-> <<"V", "A", "T", " ", "1", "2", "%">>,
     amount |-> 12]
\* the empty recordset of a line without tax_line_id
NoTax == [description |-> <<>>, name |-> <<>>, amount |-> 0]

\* 'withholding' in description.lower()
HasWithholding(description) ==
    Contains(Lower(description), <<"w", "i", "t", "h", "h", "o", "l", "d", "i", "n", "g">>)
\* 'EWT' in name or 'WC' in name
HasEwtName(name) ==
    Contains(name, <<"E", "W", "T">>) \/ Contains(name, <<"W", "C">>)

\* text of n copies of one character
Rep(c, n) == [i \in 1..n |-> c]

\* res.partner rows of the vendors; address is the text _format_address joins
PartnerTable ==
    [ p \in {7, 8} |->
        IF p = 7
        THEN [ vat |-> <<"1", "2", "3", "-", "4", "5", "6", "-", "7", "8", "9">>,
               name |-> <<"A", "C", "M", "E">>,
               address |-> <<"M", "a", "k", "a", "t", "i">> ]
        ELSE [ vat |-> <<>>, name |-> Rep("N", 80), address |-> <<>> ] ]

\* posted and draft vendor bills of the ledger (account.move, in_invoice)
BillTable ==
    << [ name |-> "BILL/2025/0001", company_id |-> EnvCompany,
         state |-> "posted", invoice_date |-> [y |-> 2025, m |-> 11, d |-> 15],
         partner_id |-> 7,
         line_ids |-> << [tax_line_id |-> TaxEwtProfessional, balance |-> -1000],
                         [tax_line_id |-> TaxVat, balance |-> 1200],
                         [tax_line_id |-> NoTax, balance |-> 10000] >> ],
       [ name |-> "BILL/2025/0002", company_id |-> EnvCompany,
         state |-> "posted", invoice_date |-> [y |-> 2025, m |-> 12, d |-> 31],
         partner_id |-> 8,
         line_ids |-> << [tax_line_id |-> TaxRental, balance |-> -500] >> ],
       [ name |-> "BILL/2025/0003", company_id |-> EnvCompany,
         state |-> "draft", invoice_date |-> [y |-> 2025, m |-> 10, d |-> 1],
         partner_id |-> 7,
         line_ids |-> << [tax_line_id |-> TaxRental, balance |-> -700] >> ] >>

\* the search domain of _get_withholding_data
BillInDomain(bill, company_id, date_from, date_to, vendor_ids) ==
    /\ bill.company_id = company_id
    /\ bill.state = "posted"
    /\ DateLe(date_from, bill.invoice_date)
    /\ DateLe(bill.invoice_date, date_to)
    /\ (vendor_ids = {} \/ bill.partner_id \in vendor_ids)

\* the two filters over bill.line_ids
ByDescription(l) == l.tax_line_id # NoTax /\ HasWithholding(l.tax_line_id.description)
ByName(l) == l.tax_line_id # NoTax /\ HasEwtName(l.tax_line_id.name)

WhtLines(bill) ==
    LET by_description == SelectSeq(bill.line_ids, ByDescription)
    IN IF by_description # <<>> THEN by_description
       ELSE SelectSeq(bill.line_ids, ByName)

\* the keyword table of _get_atc, in the order of its branches
AtcRules ==
    << [ words |-> { <<"P", "R", "O", "F", "E", "S", "S", "I", "O", "N", "A", "L">>,
                     <<"W", "C", "0", "1", "0">> },
         atc |-> "WC010" ],
       [ words |-> { <<"R", "E", "N", "T", "A", "L">>,
                     <<"W", "C", "0", "2", "0">> },
         atc |-> "WC020" ],
       [ words |-> { <<"S", "E", "R", "V", "I", "C", "E">>,
                     <<"W", "C", "1", "0", "0">> },
         atc |-> "WC100" ],
       [ words |-> { <<"G", "O", "O", "D", "S">>,
                     <<"W", "C", "1", "2", "0">> },
         atc |-> "WC120" ] >>

\* the if/elif chain of _get_atc from branch i on
RECURSIVE AtcFrom(_, _)
AtcFrom(name, i) ==
    IF i > Len(AtcRules) THEN "WC010"
    ELSE IF \E w \in AtcRules[i].words : Contains(name, w)
    THEN AtcRules[i].atc
    ELSE AtcFrom(name, i + 1)

\* the keyword table applied to the name as written
GetAtcAsWritten(tax) ==
    IF tax = NoTax THEN "WC010"
    ELSE AtcFrom(tax.name, 1)

\* _get_atc
GetAtc(tax) ==
    IF tax = NoTax THEN "WC010"
    ELSE AtcFrom(Upper(tax.name), 1)

\* text[:n]
Take(text, n) == SubSeq(text, 1, IF Len(text) < n THEN Len(text) ELSE n)

\* _format_address: the joined parts, cut to 100 characters
FormatAddress(partner) == Take(partner.address, 100)

\* the record of a line with the rate taken as a fraction, not as a percentage
WhtRecordFraction(bill, l) ==
    LET tax_rate == FAbs(l.tax_line_id.amount)
        tax_amount == FAbs(l.balance)
        partner == partners[bill.partner_id]
    IN [ vendor_id |-> bill.partner_id,
         vendor_tin |-> partner.vat,
         vendor_name |-> partner.name,
         vendor_address |-> FormatAddress(partner),
         atc |-> GetAtc(l.tax_line_id),
         tax_rate |-> tax_rate,
         base_amount |-> IF tax_rate > 0 THEN tax_amount \div tax_rate ELSE 0,
         tax_amount |-> tax_amount,
         bill_ref |-> bill.name,
         bill_date |-> bill.invoice_date ]

\* the record of one withholding line; amounts in cents, rate in percent
WhtRecord(bill, l) ==
    LET tax_rate == FAbs(l.tax_line_id.amount)
        tax_amount == FAbs(l.balance)
        partner == partners[bill.partner_id]
    IN [ vendor_id |-> bill.partner_id,
         vendor_tin |-> partner.vat,
         vendor_name |-> partner.name,
         vendor_address |-> FormatAddress(partner),
         atc |-> GetAtc(l.tax_line_id),
         tax_rate |-> tax_rate,
         base_amount |-> IF tax_rate > 0
                         THEN (tax_amount * 100) \div tax_rate ELSE 0,
         tax_amount |-> tax_amount,
         bill_ref |-> bill.name,
         bill_date |-> bill.invoice_date ]

\* records = [], totals = {'base': 0.0, 'tax': 0.0}
NoWht == [records |-> <<>>, totals |-> [base |-> 0, tax |-> 0]]

\* the loop over wht_lines: the record appended, the totals added to
RECURSIVE LineRecords(_, _, _)
LineRecords(bill, ls, data) ==
    IF ls = <<>> THEN data
    ELSE LET record == WhtRecord(bill, Head(ls))
         IN LineRecords(bill, Tail(ls),
                [ records |-> Append(data.records, record),
                  totals |-> [ base |-> FAdd(data.totals.base, record.base_amount),
                               tax |-> FAdd(data.totals.tax, record.tax_amount) ] ])

\* the loop over the bills found by the search
RECURSIVE BillRecords(_, _, _, _, _, _)
BillRecords(found, company_id, date_from, date_to, vendor_ids, data) ==
    IF found = <<>> THEN data
    ELSE BillRecords(Tail(found), company_id, date_from, date_to, vendor_ids,
             IF BillInDomain(Head(found), company_id, date_from, date_to,
                             vendor_ids)
             THEN LineRecords(Head(found), WhtLines(Head(found)), data)
             ELSE data)

\* _get_withholding_data
GetWithholdingData(company_id, date_from, date_to, vendor_ids) ==
    BillRecords(bills, company_id, date_from, date_to, vendor_ids, NoWht)

\* BIR_2307_FIELDS: the fields of a DAT line and their widths, in order
BIR_2307_FIELDS ==
    << [name |-> "returning_period", width |-> 6],
       [name |-> "seq_no", width |-> 10],
       [name |-> "tin", width |-> 9],
       [name |-> "branch_code", width |-> 4],
       [name |-> "vendor_name", width |-> 50],
       [name |-> "vendor_address", width |-> 100],
       [name |-> "atc", width |-> 5],
       [name |-> "tax_rate", width |-> 5],
       [name |-> "income_payment", width |-> 14],
       [name |-> "tax_withheld", width |-> 14] >>

\* str.ljust(n) and the format ':ns': blanks added on the right up to n
\* characters, nothing cut
LJust(text, n) ==
    IF Len(text) >= n THEN text ELSE text \o Rep(" ", n - Len(text))

\* zero fill of the formats ':0nd' and ':0n.2f': zeros added on the left up
\* to n characters, nothing cut
ZFill(text, n) ==
    IF Len(text) >= n THEN text ELSE Rep("0", n - Len(text)) \o text

\* str.replace(c, ''): every occurrence of the character removed
Remove(text, c) ==
    LET Other(x) == x # c IN SelectSeq(text, Other)

\* the decimal digits of a natural number
RECURSIVE IntText(_)
IntText(n) ==
    IF n < 10 THEN <<DigitSeq[n + 1]>>
    ELSE IntText(n \div 10) \o <<DigitSeq[(n % 10) + 1]>>

\* the format '.2f' of an amount given in hundredths
Fixed2(hundredths) ==
    IntText(hundredths \div 100) \o <<".">> \o ZFill(IntText(hundredths % 100), 2)

\* f"{amount:014.2f}".replace('.', '') followed by f"{base:14s}"
AmountField(cents) == LJust(Remove(ZFill(Fixed2(cents), 14), "."), 14)

\* (vendor_tin or '').replace('-', '')[:9].ljust(9) followed by f"{tin:9s}"
TinField(vendor_tin) == LJust(LJust(Take(Remove(vendor_tin, "-"), 9), 9), 9)

\* the name padded to 50 characters but not cut
NameFieldNoCut(vendor_name) == LJust(vendor_name, 50)

\* f"{record['vendor_name'][:50]:50s}"
NameField(vendor_name) == LJust(Take(vendor_name, 50), 50)

\* f"{record['vendor_address'][:100]:100s}"
AddressField(vendor_address) == LJust(Take(vendor_address, 100), 100)

\* f"{record['tax_rate']:05.2f}", the rate given in percent
RateField(tax_rate) == ZFill(Fixed2(tax_rate * 100), 5)

\* the characters of an Alpha Tax Code
AtcText(atc) ==
    CASE atc = "WC010" -> <<"W", "C", "0", "1", "0">>
      [] atc = "WC020" -> <<"W", "C", "0", "2", "0">>
      [] atc = "WC100" -> <<"W", "C", "1", "0", "0">>
      [] atc = "WC120" -> <<"W", "C", "1", "2", "0">>

\* f"{quarter_end_month:02d}{year}" from the parts of period.split('-Q')
ReturningPeriod(period) ==
    LET parts == Split(period, <<>>, <<>>)
    IN ZFill(IntText(IntOf(parts[2]).value * 3), 2) \o parts[1]

\* the fields of the DAT line of one record
DatLine(record, seq, returning_period) ==
    [ returning_period |-> LJust(returning_period, 6),
      seq_no |-> ZFill(IntText(seq), 10),
      tin |-> TinField(record.vendor_tin),
      branch_code |-> LJust(<<"0", "0", "0", "0">>, 4),
      vendor_name |-> NameField(record.vendor_name),
      vendor_address |-> AddressField(record.vendor_address),
      atc |-> LJust(AtcText(record.atc), 5),
      tax_rate |-> RateField(record.tax_rate),
      income_payment |-> AmountField(record.base_amount),
      tax_withheld |-> AmountField(record.tax_amount) ]

\* the text of a DAT line: its fields one after the other
RECURSIVE Joined(_, _)
Joined(line, i) ==
    IF i > Len(BIR_2307_FIELDS) THEN <<>>
    ELSE line[BIR_2307_FIELDS[i].name] \o Joined(line, i + 1)

\* _generate_dat: the lines of the file, joined by CRLF in the content
GenerateDat(data, period) ==
    [ seq \in 1..Len(data.records) |->
        DatLine(data.records[seq], seq, ReturningPeriod(period)) ]

\* _generate_xlsx: the cells of the worksheet below the header row, one row
\* per record, and the two cells of the totals row
NoSheet == [rows |-> <<>>, totals |-> <<>>]

GenerateXlsx(data) ==
    [ rows |-> [ row \in 1..Len(data.records) |->
                   LET record == data.records[row]
                   IN << row, record.vendor_tin, record.vendor_name,
                         record.vendor_address, record.atc, record.tax_rate,
                         record.base_amount, record.tax_amount, record.bill_ref,
                         record.bill_date >> ],
      totals |-> <<data.totals.base, data.totals.tax>> ]

\* every line followed by the line terminator
RECURSIVE JoinCrLfTerminated(_)
JoinCrLfTerminated(texts) ==
    IF texts = <<>> THEN <<>>
    ELSE Head(texts) \o <<"\r", "\n">> \o JoinCrLfTerminated(Tail(texts))

\* '\r\n'.join(lines)
RECURSIVE JoinCrLf(_)
JoinCrLf(texts) ==
    IF texts = <<>> THEN <<>>
    ELSE IF Len(texts) = 1 THEN Head(texts)
    ELSE Head(texts) \o <<"\r", "\n">> \o JoinCrLf(Tail(texts))

\* the content of the DAT file: the text of its lines, joined
DatContent(lines) ==
    JoinCrLf([ k \in 1..Len(lines) |-> Joined(lines[k], 1) ])

\* "Generate output": the encoder used, or the failure of _generate_xlsx;
\* warned is the warning _generate_pdf writes to the server log
Generate(output_format) ==
    IF output_format = "dat"
    THEN [exc |-> NoExc, encoder |-> "dat", extension |-> "dat",
          warned |-> FALSE]
    ELSE IF ~xlsxwriter
    THEN [exc |-> Exc("UserError", "xlsxwriter library required"),
          encoder |-> "none", extension |-> "",
          warned |-> output_format = "pdf"]
    ELSE [exc |-> NoExc, encoder |-> "xlsx", extension |-> "xlsx",
          warned |-> output_format = "pdf"]

BirTrace ==
    [ exc |-> NoExc, flag_checked |-> FALSE, parsed |-> FALSE,
      engine |-> FALSE, date_from |-> NoYmd, date_to |-> NoYmd,
      data |-> NoWht, encoder |-> "none", extension |-> "", dat |-> <<>>,
      content |-> <<>>, sheet |-> NoSheet, warned |-> FALSE ]

\* the try block of BirComplianceTool.execute after the feature-flag check
BirBody(params, company_id, t1) ==
    LET t2 == [t1 EXCEPT !.parsed = TRUE] IN
    IF params.period = <<>>
    THEN [t2 EXCEPT !.exc = Exc("UserError", "period is required")]
    ELSE
    LET q == ParseQuarter(params.period) IN
    IF q.exc.cls # "None" THEN [t2 EXCEPT !.exc = q.exc]
    ELSE IF params.output_format \notin {"dat", "xlsx", "pdf"}
    THEN [t2 EXCEPT !.exc = Exc("UserError", "Invalid output_format")]
    ELSE
    LET data == GetWithholdingData(company_id, q.date_from, q.date_to,
                                   params.vendor_ids)
        g == Generate(params.output_format)
        t3 == [t2 EXCEPT !.engine = TRUE, !.data = data,
                         !.date_from = q.date_from, !.date_to = q.date_to]
    IN IF g.exc.cls # "None"
       THEN [t3 EXCEPT !.exc = g.exc, !.warned = g.warned]
       ELSE [t3 EXCEPT !.encoder = g.encoder, !.extension = g.extension,
                       !.warned = g.warned,
                       !.dat = IF g.encoder = "dat"
                               THEN GenerateDat(data, params.period)
                               ELSE <<>>,
                       !.content = IF g.encoder = "dat"
                                   THEN DatContent(GenerateDat(data,
                                                               params.period))
                                   ELSE <<>>,
                       !.sheet = IF g.encoder = "xlsx"
                                 THEN GenerateXlsx(data)
                                 ELSE NoSheet]

\* the try block of BirComplianceTool.execute up to the audit-log write
BirTry(params) ==
    LET company_id == CompanyId(params) IN
    IF ~CompanyExists(company_id)
    THEN [BirTrace EXCEPT !.exc = Exc("UserError", "Company not found")]
    ELSE
    LET cfg == GetConfig(config, company_id)
        t1 == [BirTrace EXCEPT !.flag_checked = TRUE]
    IN
    IF ~cfg.enable_bir_tools
    THEN [t1 EXCEPT !.exc = Exc("AccessError", "BIR Compliance tools are disabled")]
    ELSE BirBody(params, company_id, t1)

\* period strings: well-formed ones, and ones the pattern of the schema rejects
PeriodInputs ==
    { <<>>,
      \* '2025'
      <<"2", "0", "2", "5">>,
      \* '2025-Q0'
      <<"2", "0", "2", "5", "-", "Q", "0">>,
      \* '2025-Q1'
      <<"2", "0", "2", "5", "-", "Q", "1">>,
      \* '2025-Q2'
      <<"2", "0", "2", "5", "-", "Q", "2">>,
      \* '2025-Q3'
      <<"2", "0", "2", "5", "-", "Q", "3">>,
      \* '2025-Q4'
      <<"2", "0", "2", "5", "-", "Q", "4">>,
      \* '2025-Q5'
      <<"2", "0", "2", "5", "-", "Q", "5">>,
      \* '2024-Q1'
      <<"2", "0", "2", "4", "-", "Q", "1">>,
      \* '2025-Q04'
      <<"2", "0", "2", "5", "-", "Q", "0", "4">>,
      \* '25-Q1'
      <<"2", "5", "-", "Q", "1">>,
      \* '2025-Q+4'
      <<"2", "0", "2", "5", "-", "Q", "+", "4">>,
      \* ' 2025-Q4'
      <<" ", "2", "0", "2", "5", "-", "Q", "4">>,
      \* '2025-q4'
      <<"2", "0", "2", "5", "-", "q", "4">>,
      \* '2025-Q4-Q1'
      <<"2", "0", "2", "5", "-", "Q", "4", "-", "Q", "1">>,
      \* '2025-Q'
      <<"2", "0", "2", "5", "-", "Q">> }

BirParams ==
    [ company_id : CompanyInputs,
      period : PeriodInputs,
      vendor_ids : {{}, {7}},
      output_format : {"dat", "xlsx", "pdf", "csv"} ]

\* the vendor of the encoded bill: tax ids, names and addresses shorter and
\* longer than their fields
TinInputs ==
    { <<>>,
      <<"1", "2", "3", "4", "5">>,
      <<"1", "2", "3", "-", "4", "5", "6", "-", "7", "8", "9">>,
      <<"1", "2", "3", "-", "4", "5", "6", "-", "7", "8", "9", "-",
        "0", "0", "0">> }
NameInputs == { <<>>, <<"A", "C", "M", "E">>, Rep("N", 50), Rep("N", 80) }
AddressInputs == { <<>>, Rep("A", 120) }

DatPartners ==
    { [ p \in {7, 8} |->
          IF p = 7 THEN [vat |-> v, name |-> n, address |-> a]
          ELSE PartnerTable[8] ] :
        v \in TinInputs, n \in NameInputs, a \in AddressInputs }

\* a withholding tax of 100 percent: 'Expanded Withholding Tax',
\* 'EWT Final 100%'
TaxFull ==
    [description |-> <<"E", "x", "p", "a", "n", "d", "e", "d", " ", "W", "i", "t", "h", "h", "o", "l", "d", "i", "n", "g", " ", "T", "a", "x">>,
     name |-> <<"E", "W", "T", " ", "F", "i", "n", "a", "l", " ", "1", "0", "0", "%">>,
     amount |-> -100]

\* one posted bill of vendor 7 in 2025-Q4 with one withholding line
DatBills ==
    { << [ name |-> "BILL/2025/0001", company_id |-> EnvCompany,
           state |-> "posted", invoice_date |-> [y |-> 2025, m |-> 11, d |-> 15],
           partner_id |-> 7,
           line_ids |-> << [tax_line_id |-> t, balance |-> b] >> ] >> :
        t \in {TaxEwtProfessional, TaxRental, TaxFull},
        b \in {-5, -1000, -123456} }

BirDatParams ==
    [ company_id : {0},
      period : { <<"2", "0", "2", "5", "-", "Q", "4">> },
      vendor_ids : {{}, {7}},
      output_format : {"dat"} ]

\* withholding taxes told by their description only, by their name only with
\* a rate of zero, and a name in lower case
\* 'WITHHOLDING TAX', 'Goods 1%'
TaxGoodsUpper ==
    [description |-> <<"W", "I", "T", "H", "H", "O", "L", "D", "I", "N", "G", " ", "T", "A", "X">>,
     name |-> <<"G", "o", "o", "d", "s", " ", "1", "%">>,
     amount |-> 1]
\* no description, 'EWT Exempt'
TaxExempt ==
    [description |-> <<>>,
     name |-> <<"E", "W", "T", " ", "E", "x", "e", "m", "p", "t">>,
     amount |-> 0]
\* no description, 'ewt wc'
TaxLowerName ==
    [description |-> <<>>,
     name |-> <<"e", "w", "t", " ", "w", "c">>,
     amount |-> -2]

LineTaxes ==
    {TaxEwtProfessional, TaxRental, TaxVat, NoTax, TaxGoodsUpper, TaxExempt,
     TaxLowerName}

\* the lines of a bill: line i has a balance of i thousand, credit or debit
BillLines(taxes) ==
    [ i \in 1..Len(taxes) |->
        [ tax_line_id |-> taxes[i],
          balance |-> IF i % 2 = 1 THEN -(1000 * i) ELSE 1000 * i ] ]

\* one bill of vendor 7 with up to MaxLines lines: posted in the first or in
\* the fourth quarter of 2025, or a draft
LineBills ==
    { << [ name |-> "BILL/2025/0001", company_id |-> EnvCompany,
           state |-> h.state, invoice_date |-> h.invoice_date,
           partner_id |-> 7,
           line_ids |-> BillLines(taxes) ] >> :
        h \in { [state |-> "posted", invoice_date |-> [y |-> 2025, m |-> 11, d |-> 15]],
                 [state |-> "posted", invoice_date |-> [y |-> 2025, m |-> 2, d |-> 10]],
                 [state |-> "draft", invoice_date |-> [y |-> 2025, m |-> 11, d |-> 15]] },
        taxes \in UNION { [1..n -> LineTaxes] : n \in 1..MaxLines } }

BirLineParams ==
    [ company_id : {0},
      period : { <<"2", "0", "2", "5", "-", "Q", "1">>,
                 <<"2", "0", "2", "5", "-", "Q", "4">> },
      vendor_ids : {{}, {8}},
      output_format : {"dat"} ]

\* names of withholding taxes: with one keyword, with several, with none,
\* in lower case, with the literal codes
AtcNames ==
    { \* 'Rental Income Tax'
      <<"R", "e", "n", "t", "a", "l", " ", "I", "n", "c", "o", "m", "e", " ", "T", "a", "x">>,
      \* 'Misc Fee'
      <<"M", "i", "s", "c", " ", "F", "e", "e">>,
      \* 'Professional Fees'
      <<"P", "r", "o", "f", "e", "s", "s", "i", "o", "n", "a", "l", " ", "F", "e", "e", "s">>,
      \* 'Service Fee'
      <<"S", "e", "r", "v", "i", "c", "e", " ", "F", "e", "e">>,
      \* 'Goods'
      <<"G", "o", "o", "d", "s">>,
      \* 'Goods and Services'
      <<"G", "o", "o", "d", "s", " ", "a", "n", "d", " ", "S", "e", "r", "v", "i", "c", "e", "s">>,
      \* 'Rental of Professional Tools'
      <<"R", "e", "n", "t", "a", "l", " ", "o", "f", " ", "P", "r", "o", "f", "e", "s", "s", "i", "o", "n", "a", "l", " ", "T", "o", "o", "l", "s">>,
      \* 'rental goods'
      <<"r", "e", "n", "t", "a", "l", " ", "g", "o", "o", "d", "s">>,
      \* 'WC020 Goods'
      <<"W", "C", "0", "2", "0", " ", "G", "o", "o", "d", "s">>,
      \* 'wc120 service'
      <<"w", "c", "1", "2", "0", " ", "s", "e", "r", "v", "i", "c", "e">>,
      \* 'WC100'
      <<"W", "C", "1", "0", "0">>,
      \* ''
      <<>> }

\* one posted bill of vendor 7 in 2025-Q4 with one withholding line whose tax
\* has one of the names
AtcBills ==
    { << [ name |-> "BILL/2025/0001", company_id |-> EnvCompany,
           state |-> "posted", invoice_date |-> [y |-> 2025, m |-> 11, d |-> 15],
           partner_id |-> 7,
           line_ids |-> << [ tax_line_id |->
                                 [ description |-> <<"W", "i", "t", "h", "h", "o", "l", "d", "i", "n", "g">>,
                                   name |-> n, amount |-> -a ],
                             balance |-> -1000 ] >> ] >> :
        n \in AtcNames, a \in {2, 10} }

BirAtcParams ==
    [ company_id : {0},
      period : { <<"2", "0", "2", "5", "-", "Q", "4">> },
      vendor_ids : {{}, {7}},
      output_format : {"dat", "xlsx"} ]

\* the summary handed to log_execution with the file attached to it
BirSummaryWithFile(t) ==
    <<Len(t.data.records), t.data.totals.base, t.data.totals.tax,
      [encoder |-> t.encoder, content |-> t.content, sheet |-> t.sheet]>>

\* result= of the log_execution call on success: record_count, total_base,
\* total_tax
BirSummary(t) ==
    <<Len(t.data.records), t.data.totals.base, t.data.totals.tax>>

\* the dictionary execute returns: on success the encoded file, its name (by
\* its extension), the summary and the metadata; on failure the envelope
BirResult(params, t, r) ==
    IF r.outcome = "success"
    THEN [ success |-> TRUE,
           file_content |-> [encoder |-> t.encoder, content |-> t.content,
                             sheet |-> t.sheet],
           filename |-> t.extension,
           record_count |-> Len(t.data.records),
           total_base |-> t.data.totals.base,
           total_tax |-> t.data.totals.tax,
           metadata |-> [ period |-> params.period,
                          output_format |-> params.output_format ] ]
    ELSE [ success |-> FALSE, error |-> r.error, error_type |-> r.error_type ]

\* BirComplianceTool.execute, for the calls given
Bir2307Execute(calls) ==
    /\ call.tool = "none"
    /\ ncalls < MaxCalls
    /\ \E params \in calls :
         \E t \in {BirTry(params)} :
           LET company_id == CompanyId(params)
               s == IF t.exc.cls # "None"
                    THEN [exc |-> t.exc, rows |-> log]
                    ELSE LogExecution(log, "generate_bir_2307", company_id,
                                      BirSummary(t), "", "executed")
               r == IF s.exc.cls = "None"
                    THEN Success(s.rows)
                    ELSE Handle("generate_bir_2307", params, s.exc)
           IN /\ config' = IF t.flag_checked
                           THEN ConfigAfterGet(config, company_id)
                           ELSE config
              /\ log' = r.rows
              /\ call' = [ tool |-> "generate_bir_2307",
                           params |-> params,
                           trace |-> t,
                           outcome |-> r.outcome,
                           error_type |-> r.error_type,
                           error |-> r.error,
                           result |-> BirResult(params, t, r),
                           logged |-> Len(r.rows) - Len(log) ]
              /\ ncalls' = ncalls + 1
    /\ UNCHANGED <<lock, registry, xlsxwriter, moves, bills, partners, procs>>

(***************************************************************************)
(* Two requests at the same time.  Each request runs execute in a         *)
(* transaction of its own that is committed when the envelope is          *)
(* returned; the steps are the statements get_config sends to the         *)
(* database, and the rest of execute.                                      *)
(***************************************************************************)
Procs == {1, 2}

NoParams ==
    [ company_id |-> 0, date_from |-> NoDate, date_to |-> NoDate,
      account_types |-> {}, include_zero |-> FALSE ]

Idle == [pc |-> "idle", found |-> FALSE, params |-> NoParams, outcome |-> "",
         rows |-> <<>>]

NoProcs == [p \in Procs |-> Idle]

\* get_trial_balance calls of the company of the session, undated
ConcurrentParams ==
    [ company_id : {0},
      date_from : {NoDate},
      date_to : {NoDate},
      account_types : {{}, {"asset"}},
      include_zero : BOOLEAN ]

\* get_config: self.search([('company_id', '=', company_id)], limit=1), on
\* the rows committed so far
SearchConfig(p) ==
    /\ procs[p].pc = "idle"
    /\ \E params \in ConcurrentParams :
         procs' = [procs EXCEPT ![p] =
                     [ pc |-> "searched",
                       found |-> config[CompanyId(params)] # <<>>,
                       params |-> params, outcome |-> "", rows |-> <<>> ]]
    /\ UNCHANGED <<config, lock, registry, xlsxwriter, moves, bills, partners,
                   log, call, ncalls>>

\* get_config: self.create({'company_id': company_id}) under
\* UNIQUE(company_id).  The insert waits for a transaction that has inserted
\* a row of the company and not yet committed; it fails when a row of the
\* company is committed, and the failed transaction lets no statement of the
\* except block through, so the exception leaves execute.
CreateConfig(p) ==
    /\ procs[p].pc = "searched"
    /\ ~procs[p].found
    /\ \A q \in Procs \ {p} : procs[q].pc # "inserted"
    /\ procs' = [procs EXCEPT ![p] =
                    IF config[CompanyId(procs[p].params)] # <<>>
                    THEN [@ EXCEPT !.pc = "done", !.outcome = "escaped"]
                    ELSE [@ EXCEPT !.pc = "inserted"]]
    /\ UNCHANGED <<config, lock, registry, xlsxwriter, moves, bills, partners,
                   log, call, ncalls>>

\* the rest of TrialBalanceTool.execute and the commit of the transaction:
\* the row created by get_config and the audit row become visible
FinishExecute(p) ==
    /\ \/ procs[p].pc = "inserted"
       \/ procs[p].pc = "searched" /\ procs[p].found
    /\ LET params == procs[p].params
           company_id == CompanyId(params)
           t == TbTry(params)
           s == IF t.exc.cls # "None"
                THEN [exc |-> t.exc, rows |-> log]
                ELSE IF GetConfig(config, company_id).log_all_queries
                THEN LogExecution(log, "get_trial_balance", company_id,
                                  <<Len(t.data.accounts)>>, "", "executed")
                ELSE [exc |-> NoExc, rows |-> log]
           r == IF s.exc.cls = "None"
                THEN Success(s.rows)
                ELSE Handle("get_trial_balance", params, s.exc)
       IN /\ config' = ConfigAfterGet(config, company_id)
          /\ log' = r.rows
          /\ procs' = [procs EXCEPT ![p] =
                          [@ EXCEPT !.pc = "done", !.outcome = r.outcome,
                                    !.rows = SubSeq(r.rows, Len(log) + 1,
                                                    Len(r.rows))]]
    /\ UNCHANGED <<lock, registry, xlsxwriter, moves, bills, partners, call,
                   ncalls>>

(***************************************************************************)
(* list_available_tools                                                    *)
(***************************************************************************)
\* technical_name of the rows of mcp.finance.tool
TechnicalName ==
    [ t \in ToolNames |->
        CASE t = "get_trial_balance" ->
               <<"g", "e", "t", "_", "t", "r", "i", "a", "l", "_", "b", "a", "l", "a", "n", "c", "e">>
          [] t = "create_journal_entry" ->
               <<"c", "r", "e", "a", "t", "e", "_", "j", "o", "u", "r", "n", "a", "l", "_", "e", "n", "t", "r", "y">>
          [] t = "generate_bir_2307" ->
               <<"g", "e", "n", "e", "r", "a", "t", "e", "_", "b", "i", "r", "_", "2", "3", "0", "7">> ]

\* str.replace(word, ''): every occurrence of the word removed, left to right
RECURSIVE RemoveWord(_, _)
RemoveWord(text, word) ==
    IF Len(text) < Len(word) THEN text
    ELSE IF SubSeq(text, 1, Len(word)) = word
    THEN RemoveWord(SubSeq(text, Len(word) + 1, Len(text)), word)
    ELSE <<Head(text)>> \o RemoveWord(Tail(text), word)

\* config_field: 'enable_' and the technical name without its verb
ConfigFieldName(technical_name) ==
    <<"e", "n", "a", "b", "l", "e", "_">>
      \o RemoveWord(
            RemoveWord(
              RemoveWord(
                RemoveWord(technical_name, <<"g", "e", "t", "_">>),
                <<"c", "r", "e", "a", "t", "e", "_">>),
              <<"r", "u", "n", "_">>),
            <<"g", "e", "n", "e", "r", "a", "t", "e", "_">>)

\* the attributes of a mcp.finance.config record that a tool name can lead
\* to, by name: the flags of the tools
ConfigAttributes ==
    << [ name |-> <<"e", "n", "a", "b", "l", "e", "_", "t", "r", "i", "a", "l", "_", "b", "a", "l", "a", "n", "c", "e">>,
         field |-> "enable_trial_balance" ],
       [ name |-> <<"e", "n", "a", "b", "l", "e", "_", "j", "o", "u", "r", "n", "a", "l", "_", "e", "n", "t", "r", "y">>,
         field |-> "enable_journal_entry" ],
       [ name |-> <<"e", "n", "a", "b", "l", "e", "_", "b", "i", "r", "_", "t", "o", "o", "l", "s">>,
         field |-> "enable_bir_tools" ] >>

\* hasattr(config, config_field)
HasAttr(config_field) ==
    \E k \in 1..Len(ConfigAttributes) : ConfigAttributes[k].name = config_field

\* getattr(config, config_field, True)
GetAttr(cfg, config_field) ==
    IF HasAttr(config_field)
    THEN cfg[ConfigAttributes[CHOOSE k \in 1..Len(ConfigAttributes) :
                                  ConfigAttributes[k].name = config_field].field]
    ELSE TRUE

\* the loop of list_available_tools over the active tools
Available(cfg) ==
    { t \in registry :
        LET config_field == ConfigFieldName(TechnicalName[t])
        IN ~(HasAttr(config_field) /\ ~GetAttr(cfg, config_field)) }

\* McpFinanceTool.list_available_tools, as the controller calls it
ListAvailableTools ==
    /\ call.tool = "none"
    /\ ncalls < MaxCalls
    /\ \E params \in [company_id : {0}] :
         LET company_id == CompanyId(params)
         IN /\ config' = ConfigAfterGet(config, company_id)
            /\ call' = [ tool |-> "list_available_tools",
                         params |-> params,
                         available |-> Available(GetConfig(config, company_id)) ]
    /\ ncalls' = ncalls + 1
    /\ UNCHANGED <<lock, registry, xlsxwriter, moves, bills, partners, log,
                   procs>>

\* generate_bir_2307 with any parameters, and as DAT file of one bill
ExecuteBir2307 == Bir2307Execute(BirParams)
ExecuteBir2307Dat == Bir2307Execute(BirDatParams)
ExecuteBir2307Lines == Bir2307Execute(BirLineParams)
ExecuteBir2307Atc == Bir2307Execute(BirAtcParams)

\* get_trial_balance with any parameters, and on a ledger with moves
ExecuteTrialBalance == TrialBalanceExecute(TbParams)
ExecuteTrialBalanceLedger == TrialBalanceExecute(TbLedgerParams)

\* create_journal_entry called by any identity with any header
ExecuteJournalEntry == JournalEntryExecute(JeHeaderProbes, BOOLEAN, {"none"})

\* create_journal_entry called with a valid header and any lines
ExecuteJournalEntryLines == JournalEntryExecute(JeLineProbes, {FALSE}, {"none"})

\* create_journal_entry called with a valid header and any account references
ExecuteJournalEntryAccounts ==
    JournalEntryExecute(JeAccountProbes, {FALSE}, {"none"})

\* create_journal_entry with numeric lines, the engine or the audit store
\* possibly failing after the entry was created
ExecuteJournalEntryFaults == JournalEntryExecute(JeFaultProbes, {FALSE}, Faults)

\* create_journal_entry on lines that fail the per-line checks
ExecuteJournalEntryOrder == JournalEntryExecute(JeOrderProbes, {FALSE}, {"none"})

\* the controller returns the envelope to the caller
Respond ==
    /\ call.tool # "none"
    /\ call' = NoCall
    /\ UNCHANGED <<config, lock, registry, xlsxwriter, moves, bills, partners,
                   log, ncalls, procs>>

(***************************************************************************)
(* Initial states: the stores before the first call.                       *)
(***************************************************************************)
LockDates == 0..(MaxDate - 1)

JeConfigs ==
    { [DefaultConfig EXCEPT !.enable_journal_entry = e,
                            !.require_approval_je = r,
                            !.max_je_amount = m] :
        e \in BOOLEAN, r \in BOOLEAN, m \in {0, 100} }

FlagConfigs ==
    { [DefaultConfig EXCEPT !.enable_trial_balance = a,
                            !.enable_bir_tools = b,
                            !.log_all_queries = l] :
        a \in BOOLEAN, b \in BOOLEAN, l \in BOOLEAN }

\* configurations that vary the flag of every tool
ToolFlagConfigs ==
    { [DefaultConfig EXCEPT !.enable_trial_balance = a,
                            !.enable_journal_entry = j,
                            !.enable_bir_tools = b] :
        a \in BOOLEAN, j \in BOOLEAN, b \in BOOLEAN }

NoLock == [fiscalyear_lock_date |-> NoDate, period_lock_date |-> NoDate]

\* the stores of the company of the acting user; the other company has no
\* configuration row and no lock dates
ConfigOf(rows) == [c \in Companies |-> IF c = EnvCompany THEN rows ELSE <<>>]
LockOf(l) == [c \in Companies |-> IF c = EnvCompany THEN l ELSE NoLock]

Init ==
    /\ moves = <<>>
    /\ bills = BillTable
    /\ partners = PartnerTable
    /\ log = <<>>
    /\ call = NoCall
    /\ ncalls = 0
    /\ procs = NoProcs
    /\ \/ /\ \E c \in JeConfigs : config = ConfigOf(<<c>>)
          /\ lock = LockOf(NoLock)
          /\ registry = ToolNames
          /\ xlsxwriter = TRUE
       \/ /\ \E c \in FlagConfigs : config \in {ConfigOf(<<>>), ConfigOf(<<c>>)}
          /\ lock = LockOf(NoLock)
          /\ registry = ToolNames
          /\ xlsxwriter \in BOOLEAN

Next ==
    \/ ExecuteTrialBalance
    \/ ExecuteBir2307
    \/ ExecuteJournalEntry
    \/ Respond

Spec == Init /\ [][Next]_vars

\* the journal-entry tool on a company with any lock dates
InitJeLocks ==
    /\ moves = <<>>
    /\ bills = BillTable
    /\ partners = PartnerTable
    /\ log = <<>>
    /\ call = NoCall
    /\ ncalls = 0
    /\ procs = NoProcs
    /\ \E c \in JeConfigs : config = ConfigOf(<<c>>)
    /\ \E l \in [fiscalyear_lock_date : LockDates,
                  period_lock_date : LockDates] : lock = LockOf(l)
    /\ registry = ToolNames
    /\ xlsxwriter = TRUE

NextJeLocks ==
    \/ ExecuteJournalEntry
    \/ Respond

SpecJeLocks == InitJeLocks /\ [][NextJeLocks]_vars

\* the journal-entry tool alone, enabled, on a company without lock dates
InitJeLines ==
    /\ moves = <<>>
    /\ bills = BillTable
    /\ partners = PartnerTable
    /\ log = <<>>
    /\ call = NoCall
    /\ ncalls = 0
    /\ procs = NoProcs
    /\ \E c \in JeConfigs : config = ConfigOf(<<c>>)
    /\ lock = LockOf(NoLock)
    /\ registry \in {ToolNames, {}}
    /\ xlsxwriter = TRUE

NextJeLines ==
    \/ ExecuteJournalEntryLines
    \/ Respond

SpecJeLines == InitJeLines /\ [][NextJeLines]_vars

\* the journal-entry tool alone, registered and enabled, called with lines
\* that vary the account references
InitJeAccounts ==
    /\ InitJeLines
    /\ registry = ToolNames
    /\ GetConfig(config, EnvCompany).enable_journal_entry

NextJeAccounts ==
    \/ ExecuteJournalEntryAccounts
    \/ Respond

SpecJeAccounts == InitJeAccounts /\ [][NextJeAccounts]_vars

\* the journal-entry tool alone, registered and enabled, with a ledger engine
\* and an audit store that may fail
NextJeFaults ==
    \/ ExecuteJournalEntryFaults
    \/ Respond

SpecJeFaults == InitJeAccounts /\ [][NextJeFaults]_vars

NextJeOrder ==
    \/ ExecuteJournalEntryOrder
    \/ Respond

SpecJeOrder == InitJeAccounts /\ [][NextJeOrder]_vars

\* the listing and the three tools, for every setting of the three flags
InitList ==
    /\ moves = <<>>
    /\ bills = BillTable
    /\ partners = PartnerTable
    /\ log = <<>>
    /\ call = NoCall
    /\ ncalls = 0
    /\ procs = NoProcs
    /\ \E c \in ToolFlagConfigs : config \in {ConfigOf(<<>>), ConfigOf(<<c>>)}
    /\ lock = LockOf(NoLock)
    /\ registry = ToolNames
    /\ xlsxwriter = TRUE

NextList ==
    \/ ListAvailableTools
    \/ ExecuteTrialBalanceLedger
    \/ ExecuteBir2307Lines
    \/ ExecuteJournalEntryLines
    \/ Respond

SpecList == InitList /\ [][NextList]_vars

\* two requests at the same time, for a company with or without a
\* configuration record
InitConcurrent ==
    /\ moves = <<>>
    /\ bills = BillTable
    /\ partners = PartnerTable
    /\ log = <<>>
    /\ call = NoCall
    /\ ncalls = 0
    /\ procs = NoProcs
    /\ config \in {ConfigOf(<<>>), ConfigOf(<<DefaultConfig>>)}
    /\ lock = LockOf(NoLock)
    /\ registry = ToolNames
    /\ xlsxwriter = TRUE

NextConcurrent ==
    \E p \in Procs :
        \/ SearchConfig(p)
        \/ CreateConfig(p)
        \/ FinishExecute(p)

SpecConcurrent == InitConcurrent /\ [][NextConcurrent]_vars

\* get_trial_balance alone, registered and enabled, on a ledger with moves
InitTb ==
    /\ moves \in Ledgers
    /\ bills = BillTable
    /\ partners = PartnerTable
    /\ log = <<>>
    /\ call = NoCall
    /\ ncalls = 0
    /\ procs = NoProcs
    /\ config = ConfigOf(<<>>)
    /\ lock = LockOf(NoLock)
    /\ registry = ToolNames
    /\ xlsxwriter = TRUE

NextTb ==
    \/ ExecuteTrialBalanceLedger
    \/ Respond

SpecTb == InitTb /\ [][NextTb]_vars

\* generate_bir_2307 alone, registered and enabled, encoding one bill whose
\* vendor, tax and amount vary
InitBirDat ==
    /\ moves = <<>>
    /\ bills \in DatBills
    /\ partners \in DatPartners
    /\ log = <<>>
    /\ call = NoCall
    /\ ncalls = 0
    /\ procs = NoProcs
    /\ config = ConfigOf(<<>>)
    /\ lock = LockOf(NoLock)
    /\ registry = ToolNames
    /\ xlsxwriter = TRUE

NextBirDat ==
    \/ ExecuteBir2307Dat
    \/ Respond

SpecBirDat == InitBirDat /\ [][NextBirDat]_vars

\* generate_bir_2307 alone, on one bill whose lines carry any of the taxes
InitBirLines ==
    /\ moves = <<>>
    /\ bills \in LineBills
    /\ partners = PartnerTable
    /\ log = <<>>
    /\ call = NoCall
    /\ ncalls = 0
    /\ procs = NoProcs
    /\ config = ConfigOf(<<>>)
    /\ lock = LockOf(NoLock)
    /\ registry = ToolNames
    /\ xlsxwriter = TRUE

NextBirLines ==
    \/ ExecuteBir2307Lines
    \/ Respond

SpecBirLines == InitBirLines /\ [][NextBirLines]_vars

\* generate_bir_2307 alone, on one bill with one withholding line
InitBirAtc ==
    /\ moves = <<>>
    /\ bills \in AtcBills
    /\ partners = PartnerTable
    /\ log = <<>>
    /\ call = NoCall
    /\ ncalls = 0
    /\ procs = NoProcs
    /\ config = ConfigOf(<<>>)
    /\ lock = LockOf(NoLock)
    /\ registry = ToolNames
    /\ xlsxwriter = TRUE

NextBirAtc ==
    \/ ExecuteBir2307Atc
    \/ Respond

SpecBirAtc == InitBirAtc /\ [][NextBirAtc]_vars

(***************************************************************************)
(* Properties.  They are stated on the call in flight: its parameters,    *)
(* what its try block did, and the envelope it returns.                    *)
(***************************************************************************)
IsJe == call.tool = "create_journal_entry"
IsTb == call.tool = "get_trial_balance"
IsBir == call.tool = "generate_bir_2307"
Known == CompanyExists(CompanyId(call.params))
CallCompany == CompanyId(call.params)
CallConfig == GetConfig(config, CallCompany)
ValidDate == call.params.date \in 1..MaxDate
LastMove == moves[Len(moves)]
LastLog == log[Len(log)]

ExactlyOnePositive(l) ==
    \/ (FGt(l.debit, 0) /\ ~FGt(l.credit, 0))
    \/ (FGt(l.credit, 0) /\ ~FGt(l.debit, 0))

WithinTolerance(lines) ==
    LET diff == FAbs(FSub(SumField(lines, "debit"), SumField(lines, "credit")))
    IN diff # NaN /\ diff <= BALANCE_TOLERANCE

\* C1: create_journal_entry reaches the account.move create step only if
\* every submitted line has exactly one of debit/credit strictly positive and
\* |sum(debit) - sum(credit)| <= 0.01; any other entry is rejected before.
C1_PersistsOnlyValidBalanced ==
    (IsJe /\ call.trace.created) =>
        /\ \A i \in 1..Len(call.params.lines) :
               ExactlyOnePositive(call.params.lines[i])
        /\ WithinTolerance(call.params.lines)

HardLocked ==
    /\ lock[CallCompany].fiscalyear_lock_date # NoDate
    /\ call.params.date <= lock[CallCompany].fiscalyear_lock_date

SoftLocked ==
    /\ lock[CallCompany].period_lock_date # NoDate
    /\ call.params.date <= lock[CallCompany].period_lock_date

\* C2: a call dated on or before the fiscal-year lock date is rejected and
\* creates no entry for every identity, the adviser included, whatever the
\* period lock date is; when the lock check is reached it is the one that fails.
C2_HardLockNoOverride ==
    (IsJe /\ Known /\ ValidDate /\ HardLocked) =>
        /\ call.outcome = "failure"
        /\ ~call.trace.created
        /\ call.trace.lock_checked => call.error = "Period is locked"

C2_Witness ==
    /\ IsJe /\ Known /\ ValidDate /\ HardLocked
    /\ call.manager
    /\ call.trace.lock_checked
    /\ call.error = "Period is locked"
    /\ moves = <<>>

\* C3: a call dated on or before the period lock date and after any
\* fiscal-year lock date is rejected for an identity without the adviser
\* group, and is not rejected by the lock check for an adviser.
C3_SoftLock ==
    (IsJe /\ Known /\ ValidDate /\ SoftLocked /\ ~HardLocked) =>
        /\ ~call.manager =>
              /\ call.outcome = "failure"
              /\ ~call.trace.created
              /\ call.trace.lock_checked =>
                     call.error = "Period is locked for non-advisers"
        /\ call.manager =>
              /\ call.error \notin {"Period is locked",
                                    "Period is locked for non-advisers"}
              /\ (call.trace.lock_checked /\ call.params.journal_code = "MISC")
                     => call.trace.created

C3_Witness ==
    /\ IsJe /\ Known /\ ValidDate /\ SoftLocked /\ ~HardLocked
    /\ call.manager
    /\ call.trace.lock_checked
    /\ call.outcome = "success"
    /\ call.trace.created

\* C4: for every accepted call, requires_approval is true when the company
\* flag require_approval_je is set, and when total debit exceeds a positive
\* max_je_amount, also when auto_post was requested.
C4_ApprovalGating ==
    (IsJe /\ call.outcome = "success") =>
        /\ CallConfig.require_approval_je => call.requires_approval
        /\ ( /\ CallConfig.max_je_amount > 0
             /\ FGt(SumField(call.params.lines, "debit"),
                    CallConfig.max_je_amount) )
              => call.requires_approval

C4_Witness ==
    /\ IsJe /\ call.outcome = "success"
    /\ ~CallConfig.require_approval_je
    /\ CallConfig.max_je_amount > 0
    /\ SumField(call.params.lines, "debit") > CallConfig.max_je_amount
    /\ call.params.auto_post
    /\ call.requires_approval

\* C5: every accepted call for a company whose max_je_amount is 0 returns
\* requires_approval = true, whatever require_approval_je and the total are.
C5_ZeroThresholdAlwaysRequires ==
    (IsJe /\ call.outcome = "success" /\ CallConfig.max_je_amount = 0)
        => call.requires_approval

C8_NoExceptionEscapes ==
    call.tool # "none" => call.outcome \in {"success", "failure"}

FlagEnabled ==
    CASE IsTb -> CallConfig.enable_trial_balance
      [] IsJe -> CallConfig.enable_journal_entry
      [] IsBir -> CallConfig.enable_bir_tools

\* C9: when the feature flag of the tool is off for the company, execute
\* fails with AccessError before any tool parameter is parsed and before the
\* engine is invoked, also when the parameters are malformed.
C9_DisabledFailsFirst ==
    (call.tool # "none" /\ Known /\ ~FlagEnabled) =>
        /\ call.trace.exc.cls = "AccessError"
        /\ ~call.trace.parsed
        /\ ~call.trace.engine
        /\ call.outcome = "failure"
        /\ call.error_type = "AccessError"
        /\ IsJe => ~call.trace.created

C9_Witness ==
    /\ IsTb /\ Known /\ ~FlagEnabled
    /\ call.params.date_from = BadDate
    /\ call.outcome = "failure"
    /\ call.error_type = "AccessError"

\* C10 as stated: every call that returns an envelope adds exactly one row
\* to the audit log.
C10_AlwaysOneRecord ==
    (call.tool # "none" /\ call.outcome \in {"success", "failure"})
        => call.logged = 1

\* C10 amended: a call of a tool with an active row in mcp.finance.tool that
\* returns an envelope adds exactly one row to the audit log, except a
\* successful get_trial_balance of a company with log_all_queries off, which
\* adds none.
C10_OneRecordUnlessQueryLogOff ==
    ( /\ call.tool # "none"
      /\ call.outcome \in {"success", "failure"}
      /\ call.tool \in registry ) =>
        call.logged =
            IF IsTb /\ call.outcome = "success" /\ ~CallConfig.log_all_queries
            THEN 0 ELSE 1

C10_Witness ==
    /\ IsTb /\ call.outcome = "success"
    /\ ~CallConfig.log_all_queries
    /\ call.tool \in registry
    /\ call.logged = 0

\* the taxonomy kind a failure cause belongs to, by the message of the check
\* that detected it
CauseKind(error) ==
    CASE error \in {"Invalid date format", "Invalid period format",
                    "Invalid output_format", "journal_code is required",
                    "date is required", "ref is required",
                    "lines is required", "period is required",
                    "account is required"} -> "InvalidArgument"
      [] error \in {"Company not found", "account not found"} -> "NotFound"
      [] error \in {"Journal Entry tool is disabled",
                    "Trial Balance tool is disabled",
                    "BIR Compliance tools are disabled",
                    "Period is locked",
                    "Period is locked for non-advisers"} -> "AccessDenied"
      [] error = "Journal entry is not balanced" -> "Unbalanced"
      [] OTHER -> "other"

\* the taxonomy kind an exception class stands for: the class raised for a
\* malformed date, for a disabled tool and for an unbalanced entry
TaxonomyKind(error_type) ==
    CASE error_type = "UserError" -> "InvalidArgument"
      [] error_type = "AccessError" -> "AccessDenied"
      [] error_type = "ValidationError" -> "Unbalanced"
      [] OTHER -> "other"

\* C11: the error_type of a failure envelope stands for the taxonomy kind of
\* its cause (InvalidArgument, NotFound, AccessDenied, Unbalanced), so causes
\* of different kinds never share an error_type.
C11_ErrorTypeIsTaxonomyKind ==
    ( /\ call.tool # "none"
      /\ call.outcome = "failure"
      /\ CauseKind(call.error) # "other" ) =>
        TaxonomyKind(call.error_type) = CauseKind(call.error)

\* a submitted line naming an account that is not one of the company's
ForeignAccount(line, company_id) ==
    /\ ~NoAccountRef(line.account)
    /\ ResolveAccountInCompany(line.account, company_id) = {}

AccountById(account_id) == CHOOSE a \in AccountTable : a.id = account_id

\* C12: a call with a line whose account, given by code or by integer id,
\* does not belong to the company of the call creates no entry and fails;
\* when that line is the one the line checks stop at, the failure is
\* "account not found".
C12_AccountsWithinCompany ==
    ( /\ IsJe /\ Known
      /\ \E i \in 1..Len(call.params.lines) :
             ForeignAccount(call.params.lines[i], CallCompany) ) =>
        /\ ~call.trace.created
        /\ call.outcome = "failure"
        /\ ( /\ call.trace.line > 0
             /\ ForeignAccount(call.params.lines[call.trace.line], CallCompany) )
              => call.error = "account not found"

\* C13: a create_journal_entry call that returns a failure envelope has
\* persisted no entry, also when the post action or the audit write fails
\* after the entry was created.
C13_FailurePersistsNothing ==
    (IsJe /\ call.outcome = "failure") => call.persisted = 0

TbColumns == {"debit", "credit", "balance"}

\* the accounts of the company of the call that pass its account_types filter
MatchingAccounts ==
    SearchAccounts(AccountList, CallCompany, call.params.account_types)

\* the amounts of every matching account for the dates of the call
AllAccountRows ==
    [ i \in 1..Len(MatchingAccounts) |->
        TbRow(MatchingAccounts[i], CallCompany, call.trace.date_from,
              call.trace.date_to) ]

\* C14: for every ledger, account_types and include_zero, each of the totals
\* debit, credit and balance of a successful get_trial_balance equals the sum
\* of that column over the rows returned.
C14_TotalsOverReturnedRows ==
    (IsTb /\ call.outcome = "success") =>
        \A f \in TbColumns :
            call.trace.data.totals[f] = SumField(call.trace.data.accounts, f)

\* a row is returned, another account is dropped, and the totals differ from
\* the sums over all the accounts of the company
C14_Witness ==
    /\ IsTb /\ call.outcome = "success"
    /\ ~call.params.include_zero
    /\ Len(call.trace.data.accounts) >= 1
    /\ Len(call.trace.data.accounts) < Len(MatchingAccounts)
    /\ call.trace.data.totals.debit # SumField(AllAccountRows, "debit")
    /\ call.trace.data.totals.debit = SumField(call.trace.data.accounts, "debit")

\* the moves the query of the call aggregates: posted, of the company, dated
\* within [date_from, date_to]
RECURSIVE PostedInRange(_)
PostedInRange(ms) ==
    IF ms = <<>> THEN <<>>
    ELSE IF /\ Head(ms).state = "posted"
            /\ Head(ms).company_id = CallCompany
            /\ Head(ms).date \in call.trace.date_from..call.trace.date_to
         THEN <<Head(ms)>> \o PostedInRange(Tail(ms))
         ELSE PostedInRange(Tail(ms))

\* debit or credit booked on an account by a sequence of moves
RECURSIVE Booked(_, _, _)
Booked(ms, account_id, f) ==
    IF ms = <<>> THEN 0
    ELSE LET ls == Head(ms).line_ids
             on == { i \in 1..Len(ls) : ls[i].account_id = account_id }
             amounts == [ i \in 1..Len(ls) |-> IF i \in on THEN ls[i][f] ELSE 0 ]
         IN SumField([ i \in 1..Len(ls) |-> [v |-> amounts[i]] ], "v")
              + Booked(Tail(ms), account_id, f)

ExpectedBalance(account_id) ==
    Booked(PostedInRange(moves), account_id, "debit")
        - Booked(PostedInRange(moves), account_id, "credit")

RowIds == { call.trace.data.accounts[i].account_id :
              i \in 1..Len(call.trace.data.accounts) }

MatchingIds == { MatchingAccounts[i].id : i \in 1..Len(MatchingAccounts) }

\* C15: with include_zero false an account is in the rows iff it matches the
\* company and the account_types filter and its balance of posted lines
\* dated in [date_from, date_to] is not zero; with include_zero true every
\* matching account is in the rows; no account is in the rows twice.
C15_ZeroFiltering ==
    (IsTb /\ call.outcome = "success") =>
        /\ Cardinality(RowIds) = Len(call.trace.data.accounts)
        /\ RowIds = IF call.params.include_zero
                    THEN MatchingIds
                    ELSE { a \in MatchingIds : ExpectedBalance(a) # 0 }

\* an account with equal non-zero debit and credit is dropped, and a draft
\* move in the date range is not counted
C15_Witness ==
    /\ IsTb /\ call.outcome = "success"
    /\ ~call.params.include_zero
    /\ \E a \in MatchingIds \ RowIds :
           /\ Booked(PostedInRange(moves), a, "debit") > 0
           /\ ExpectedBalance(a) = 0
    /\ \E i \in 1..Len(moves) :
           /\ moves[i].state = "draft"
           /\ moves[i].date \in call.trace.date_from..call.trace.date_to

\* the dates the query runs with: date_to defaults to today, date_from to the
\* first day of the year
EffectiveDateTo ==
    IF call.params.date_to = NoDate THEN Today ELSE call.params.date_to
EffectiveDateFrom ==
    IF call.params.date_from = NoDate THEN YearStart ELSE call.params.date_from

TbWellFormed ==
    /\ IsTb /\ Known /\ FlagEnabled
    /\ call.params.date_from # BadDate
    /\ call.params.date_to # BadDate

\* date_from > date_to fails with the error_type of an invalid argument and
\* returns no rows; date_from = date_to is accepted
C16_DateOrder ==
    /\ (TbWellFormed /\ EffectiveDateFrom > EffectiveDateTo) =>
          /\ call.outcome = "failure"
          /\ TaxonomyKind(call.error_type) = "InvalidArgument"
          /\ call.error = "date_from must be before date_to"
          /\ call.trace.data.accounts = <<>>
          /\ ~call.trace.engine
    /\ (TbWellFormed /\ EffectiveDateFrom = EffectiveDateTo) =>
          /\ call.trace.exc = NoExc
          /\ call.outcome = "success"

\* an unknown company fails with a failure envelope of kind NotFound
C16_UnknownCompany ==
    (IsTb /\ ~Known) =>
        /\ call.outcome = "failure"
        /\ call.error = "Company not found"
        /\ TaxonomyKind(call.error_type) = "NotFound"

\* C16: get_trial_balance with date_from > date_to fails with InvalidArgument
\* and returns no rows, date_from = date_to is accepted, and an unknown
\* company fails with NotFound.
C16_TbErrors == C16_DateOrder /\ C16_UnknownCompany

\* the pattern of the schema, ^\d{4}-Q[1-4]$
WellFormedPeriod(period) ==
    /\ Len(period) = 7
    /\ \A i \in 1..4 : period[i] \in Digits
    /\ period[5] = "-"
    /\ period[6] = "Q"
    /\ period[7] \in {"1", "2", "3", "4"}

PeriodYear(period) ==
    1000 * DigitValue(period[1]) + 100 * DigitValue(period[2])
        + 10 * DigitValue(period[3]) + DigitValue(period[4])

QuarterEndDay(n) == IF n \in {1, 4} THEN 31 ELSE 30

\* 'Y-QN' with N in 1..4 parses to the first day of month 3N-2 and the last
\* day of month 3N of year Y
C17_QuarterDates ==
    (IsBir /\ Known /\ FlagEnabled /\ WellFormedPeriod(call.params.period)) =>
        LET y == PeriodYear(call.params.period)
            n == DigitValue(call.params.period[7])
            q == ParseQuarter(call.params.period)
        IN /\ q.exc = NoExc
           /\ q.date_from = [y |-> y, m |-> 3 * n - 2, d |-> 1]
           /\ q.date_to = [y |-> y, m |-> 3 * n, d |-> QuarterEndDay(n)]
           /\ call.error \notin {"Invalid period format", "period is required"}
           /\ call.trace.engine =>
                 /\ call.trace.date_from = q.date_from
                 /\ call.trace.date_to = q.date_to

\* every other period string fails as an invalid argument
C17_OtherPeriodsFail ==
    (IsBir /\ Known /\ FlagEnabled /\ ~WellFormedPeriod(call.params.period)) =>
        /\ call.outcome = "failure"
        /\ call.error \in {"Invalid period format", "period is required"}
        /\ TaxonomyKind(call.error_type) = "InvalidArgument"
        /\ ~call.trace.engine

\* C17: for every year Y and N in 1..4 the period 'Y-QN' parses to the first
\* day of month 3N-2 and the last day of month 3N of year Y, and every period
\* string not of the form YYYY-QN with N in 1..4 fails with InvalidArgument.
C17_PeriodParsing == C17_QuarterDates /\ C17_OtherPeriodsFail

IsDat == IsBir /\ call.outcome = "success" /\ call.trace.encoder = "dat"
DatLines == call.trace.dat
DatRecords == call.trace.data.records

\* C18: every encoded DAT line is exactly 217 characters, each field having
\* exactly its declared width (6+10+9+4+50+100+5+5+14+14), for all vendor
\* names, addresses, tax ids, tax rates and amounts.
C18_FixedWidthLayout ==
    IsDat =>
        \A i \in 1..Len(DatLines) :
            /\ Len(Joined(DatLines[i], 1)) = 217
            /\ \A k \in 1..Len(BIR_2307_FIELDS) :
                   Len(DatLines[i][BIR_2307_FIELDS[k].name])
                       = BIR_2307_FIELDS[k].width

\* the layout holds for every record whose tax rate is below 100 percent
C18_LayoutBelowFullRate ==
    IsDat =>
        \A i \in 1..Len(DatLines) :
            DatRecords[i].tax_rate < 100 =>
                /\ Len(Joined(DatLines[i], 1)) = 217
                /\ \A k \in 1..Len(BIR_2307_FIELDS) :
                       Len(DatLines[i][BIR_2307_FIELDS[k].name])
                           = BIR_2307_FIELDS[k].width

\* amount x 100 written as an integer, zero-padded on the left to 14 digits
FourteenDigits(cents) == ZFill(IntText(cents), 14)

\* C19: base_amount and tax_amount are each encoded as the amount times 100,
\* an integer without decimal point zero-padded on the left to exactly 14
\* digits (1234.56 is 00000000123456).
C19_AmountEncoding ==
    IsDat =>
        \A i \in 1..Len(DatLines) :
            /\ DatLines[i].income_payment
                   = FourteenDigits(DatRecords[i].base_amount)
            /\ DatLines[i].tax_withheld
                   = FourteenDigits(DatRecords[i].tax_amount)

\* the characters of a text other than dashes
RECURSIVE NoDashes(_)
NoDashes(text) ==
    IF text = <<>> THEN <<>>
    ELSE IF Head(text) = "-" THEN NoDashes(Tail(text))
         ELSE <<Head(text)>> \o NoDashes(Tail(text))

\* a field of n characters holding the first n characters of the text,
\* blanks after them
CutOrPadded(field, text, n) ==
    /\ Len(field) = n
    /\ \A k \in 1..n : field[k] = IF k <= Len(text) THEN text[k] ELSE " "

\* C20: for a vendor name of any length the vendor_name field is the first 50
\* characters of the name, right-padded with blanks to exactly 50; the tin
\* field is the tax id without dashes, cut to 9 or right-padded to exactly 9.
C20_NameAndTinFields ==
    IsDat =>
        \A i \in 1..Len(DatLines) :
            LET partner == partners[DatRecords[i].vendor_id] IN
            /\ CutOrPadded(DatLines[i].vendor_name, partner.name, 50)
            /\ CutOrPadded(DatLines[i].tin, NoDashes(partner.vat), 9)

\* a name of 80 characters is cut to 50 and a tax id of 5 digits is padded
C20_Witness ==
    /\ IsDat
    /\ Len(DatLines) = 1
    /\ Len(partners[DatRecords[1].vendor_id].name) = 80
    /\ Len(partners[DatRecords[1].vendor_id].vat) = 5
    /\ Len(DatLines[1].vendor_name) = 50
    /\ DatLines[1].tin[5] = "5"
    /\ DatLines[1].tin[6] = " "

\* the bills the search of a successful generate_bir_2307 call is about:
\* posted, of the company, dated within the quarter, of the vendors asked for
BirDone == call.tool = "generate_bir_2307" /\ call.trace.engine

BillsInRange ==
    SelectSeq(bills,
        LAMBDA bill :
            /\ bill.state = "posted"
            /\ bill.company_id = CompanyId(call.params)
            /\ DateLe(call.trace.date_from, bill.invoice_date)
            /\ DateLe(bill.invoice_date, call.trace.date_to)
            /\ (call.params.vendor_ids = {}
                  \/ bill.partner_id \in call.params.vendor_ids))

\* a line is a withholding line by its own tax descriptor alone
WithholdingLine(l) ==
    /\ l.tax_line_id # NoTax
    /\ \/ Contains(Lower(l.tax_line_id.description),
                    <<"w", "i", "t", "h", "h", "o", "l", "d", "i", "n", "g">>)
       \/ Contains(l.tax_line_id.name, <<"E", "W", "T">>)
       \/ Contains(l.tax_line_id.name, <<"W", "C">>)

\* bill reference and amount of the withholding lines, bill by bill
RECURSIVE WithholdingAmounts(_)
WithholdingAmounts(found) ==
    IF found = <<>> THEN <<>>
    ELSE LET ls == SelectSeq(Head(found).line_ids, WithholdingLine)
         IN [ i \in 1..Len(ls) |-> <<Head(found).name, FAbs(ls[i].balance)>> ]
              \o WithholdingAmounts(Tail(found))

ExtractedAmounts ==
    [ i \in 1..Len(call.trace.data.records) |->
        << call.trace.data.records[i].bill_ref,
           call.trace.data.records[i].tax_amount >> ]

\* C21: withholding detection is decided per line: a posted vendor-bill line
\* in range is extracted iff its tax description contains 'withholding'
\* (case-insensitive) or its tax short name contains 'EWT' or 'WC'; a line
\* matching only by short name is extracted even when another line of the
\* same bill matches by description.
C21_DetectionPerLine ==
    BirDone => ExtractedAmounts = WithholdingAmounts(BillsInRange)

\* the records and totals a successful generate_bir_2307 call extracted
WhtRecords == call.trace.data.records
WhtTotals == call.trace.data.totals

RECURSIVE SumOver(_, _)
SumOver(records, field) ==
    IF records = <<>> THEN 0
    ELSE Head(records)[field] + SumOver(Tail(records), field)

\* C22: for every extracted record tax_rate and tax_amount are non-negative,
\* base_amount = tax_amount / tax_rate x 100 when tax_rate > 0 and 0
\* otherwise, and the returned totals equal the sums of base_amount and
\* tax_amount over exactly the records returned.
C22_RecordAmounts ==
    BirDone =>
        /\ \A i \in 1..Len(WhtRecords) :
              LET record == WhtRecords[i] IN
              /\ record.tax_rate >= 0
              /\ record.tax_amount >= 0
              /\ IF record.tax_rate > 0
                 THEN record.base_amount * record.tax_rate
                          = record.tax_amount * 100
                 ELSE record.base_amount = 0
        /\ WhtTotals.base = SumOver(WhtRecords, "base_amount")
        /\ WhtTotals.tax = SumOver(WhtRecords, "tax_amount")

\* two lines extracted from one bill, one with a rate of zero and one with a
\* positive rate, one booked as credit and one as debit
C22_Witness ==
    /\ BirDone
    /\ Len(WhtRecords) = 2
    /\ WhtRecords[1].tax_rate = 0
    /\ WhtRecords[2].tax_rate > 0
    /\ bills[1].line_ids[1].balance < 0
    /\ bills[1].line_ids[2].balance > 0
    /\ WhtTotals.tax = WhtRecords[1].tax_amount + WhtRecords[2].tax_amount
    /\ WhtTotals.base = WhtRecords[2].base_amount
    /\ WhtTotals.base > 0

\* the ordered keyword table: keyword, literal code, Alpha Tax Code
KeywordTable ==
    << [keyword |-> <<"P", "R", "O", "F", "E", "S", "S", "I", "O", "N", "A", "L">>,
        literal |-> <<"W", "C", "0", "1", "0">>, code |-> "WC010"],
       [keyword |-> <<"R", "E", "N", "T", "A", "L">>,
        literal |-> <<"W", "C", "0", "2", "0">>, code |-> "WC020"],
       [keyword |-> <<"S", "E", "R", "V", "I", "C", "E">>,
        literal |-> <<"W", "C", "1", "0", "0">>, code |-> "WC100"],
       [keyword |-> <<"G", "O", "O", "D", "S">>,
        literal |-> <<"W", "C", "1", "2", "0">>, code |-> "WC120"] >>

RuleMatches(k, name) ==
    \/ Contains(Upper(name), KeywordTable[k].keyword)
    \/ Contains(Upper(name), KeywordTable[k].literal)

\* the code of the earliest rule that matches the name, WC010 when none does
IsFirstMatch(code, name) ==
    IF \E k \in 1..Len(KeywordTable) : RuleMatches(k, name)
    THEN \E k \in 1..Len(KeywordTable) :
            /\ RuleMatches(k, name)
            /\ \A j \in 1..(k - 1) : ~RuleMatches(j, name)
            /\ code = KeywordTable[k].code
    ELSE code = "WC010"

\* the name of the tax of the only line of the only bill
BilledTaxName == bills[1].line_ids[1].tax_line_id.name

\* C23: Alpha Tax Code classification applies the ordered keyword table to
\* the upper-cased tax name and returns the code of the first rule that
\* matches, so a name matching several rules gets the earliest one; a name
\* matching none, or a missing tax descriptor, gives WC010 ('Rental Income
\* Tax' gives WC020, 'Misc Fee' gives WC010).
C23_FirstMatchingRule ==
    /\ GetAtc(NoTax) = "WC010"
    /\ (BirDone /\ Len(WhtRecords) = 1) =>
          /\ IsFirstMatch(WhtRecords[1].atc, BilledTaxName)
          /\ BilledTaxName = <<"R", "e", "n", "t", "a", "l", " ", "I", "n", "c", "o", "m", "e", " ", "T", "a", "x">>
                => WhtRecords[1].atc = "WC020"
          /\ BilledTaxName = <<"M", "i", "s", "c", " ", "F", "e", "e">>
                => WhtRecords[1].atc = "WC010"

\* 'Goods and Services' matches the rules of SERVICE and of GOODS and is
\* classified by the earlier one
C23_Witness ==
    /\ BirDone
    /\ Len(WhtRecords) = 1
    /\ BilledTaxName = <<"G", "o", "o", "d", "s", " ", "a", "n", "d", " ", "S", "e", "r", "v", "i", "c", "e", "s">>
    /\ RuleMatches(3, BilledTaxName)
    /\ RuleMatches(4, BilledTaxName)
    /\ WhtRecords[1].atc = "WC100"

\* a generate_bir_2307 call for the print-ready format that reached the encoder
PdfCall ==
    /\ call.tool = "generate_bir_2307"
    /\ call.params.output_format = "pdf"
    /\ call.trace.engine

\* the worksheet of the tabular format for the records extracted
TabularContent ==
    [ encoder |-> "xlsx", content |-> <<>>,
      sheet |-> [ rows |-> [ k \in 1..Len(WhtRecords) |->
                               << k, WhtRecords[k].vendor_tin,
                                  WhtRecords[k].vendor_name,
                                  WhtRecords[k].vendor_address,
                                  WhtRecords[k].atc, WhtRecords[k].tax_rate,
                                  WhtRecords[k].base_amount,
                                  WhtRecords[k].tax_amount,
                                  WhtRecords[k].bill_ref,
                                  WhtRecords[k].bill_date >> ],
                  totals |-> <<WhtTotals.base, WhtTotals.tax>> ] ]

\* the pdf request succeeds wherever the tabular encoder is available, with
\* the content of the tabular format
C24_PdfDegradesToXlsx ==
    (PdfCall /\ xlsxwriter) =>
        /\ call.outcome = "success"
        /\ call.result.file_content = TabularContent

\* the returned dictionary tells the caller that the tabular format was used:
\* by a notice of its own, or by naming xlsx as the format produced
NoticeKeys == {"notice", "warning", "warnings", "fallback", "message"}

FallbackNotice(result) ==
    \/ (DOMAIN result \cup DOMAIN result.metadata) \cap NoticeKeys # {}
    \/ result.metadata.output_format = "xlsx"

\* C24: a generate_bir_2307 request with output_format=pdf does not fail
\* because of the format: it returns the same content as the tabular (xlsx)
\* format for the same records, and the result returned to the caller
\* carries an explicit notice that the tabular fallback was used.
C24_PdfFallbackNotice ==
    /\ C24_PdfDegradesToXlsx
    /\ (PdfCall /\ call.outcome = "success"
           /\ WellFormedPeriod(call.params.period))
          => FallbackNotice(call.result)

\* a generate_bir_2307 call that returned the success envelope
BirSuccess == call.tool = "generate_bir_2307" /\ call.outcome = "success"

\* the audit record the call in flight wrote
WrittenRecord == log[Len(log)]

\* C25: the audit record written for a successful generate_bir_2307 call
\* holds only a summarized result (record count and the base and tax totals)
\* and never the encoded file content returned to the caller.
C25_AuditHoldsSummaryOnly ==
    (BirSuccess /\ call.logged = 1) =>
        /\ WrittenRecord.tool_id = "generate_bir_2307"
        /\ DOMAIN WrittenRecord
               = {"tool_id", "company_id", "result", "error_message", "state"}
        /\ Len(WrittenRecord.result) = 3
        /\ WrittenRecord.result[1] = call.result.record_count
        /\ WrittenRecord.result[2] = call.result.total_base
        /\ WrittenRecord.result[3] = call.result.total_tax

\* a file with two records was returned and its audit record was written
C25_Witness ==
    /\ BirSuccess
    /\ call.logged = 1
    /\ call.result.record_count = 2
    /\ \/ Len(call.result.file_content.content) > 0
       \/ Len(call.result.file_content.sheet.rows) = 2
    /\ WrittenRecord.result[1] = 2

\* the three per-line checks, each on its own
AccountResolves(l) ==
    /\ l.account # NoRef
    /\ \E a \in AccountTable :
          a.code = l.account.code /\ a.company = CompanyId(call.params)
NonNegative(l) == l.debit >= 0 /\ l.credit >= 0
OneSide(l) == ~(l.debit > 0 /\ l.credit > 0) /\ ~(l.debit = 0 /\ l.credit = 0)

LinePasses(l) == AccountResolves(l) /\ NonNegative(l) /\ OneSide(l)

AccountErrors == {"account is required", "account not found"}
NonNegativeErrors == {"debit and credit must be non-negative"}
OneSideErrors ==
    { "cannot have both debit and credit on same line",
      "must have either debit or credit amount" }
LineErrors == AccountErrors \cup NonNegativeErrors \cup OneSideErrors

\* a create_journal_entry call whose line checks were begun
LinesChecked == IsJe /\ call.trace.engine

\* C26: line checks run per line in submission order and, within a line, in
\* the order account resolution, non-negativity, exactly-one-side; the
\* failure reported is that of the first failing check of the first failing
\* line, and the aggregate balance check runs only after every line has
\* passed its per-line checks.
C26_FirstFailureReported ==
    LinesChecked =>
        LET lines == call.params.lines
            failing == { i \in 1..Len(lines) : ~LinePasses(lines[i]) }
        IN /\ failing # {} =>
                LET first == CHOOSE i \in failing : \A j \in failing : i <= j
                    l == lines[first]
                IN /\ call.outcome = "failure"
                   /\ call.trace.line = first
                   /\ ~call.trace.balance_checked
                   /\ call.error \in
                         IF ~AccountResolves(l) THEN AccountErrors
                         ELSE IF ~NonNegative(l) THEN NonNegativeErrors
                         ELSE OneSideErrors
           /\ failing = {} =>
                /\ call.trace.balance_checked
                /\ call.error \notin LineErrors
           /\ call.error = "Journal entry is not balanced"
                => call.trace.balance_checked

\* the second line has an unknown account and a negative debit, after a first
\* line that passes: the account failure of line 2 is the one reported
C26_Witness ==
    /\ LinesChecked
    /\ Len(call.params.lines) = 2
    /\ LinePasses(call.params.lines[1])
    /\ ~AccountResolves(call.params.lines[2])
    /\ ~NonNegative(call.params.lines[2])
    /\ call.trace.line = 2
    /\ call.error = "account not found"
    /\ ~call.trace.balance_checked

\* the content returned by a successful DAT request, and its k-th line when
\* every line has the width of the layout and two characters part the lines
DatText == call.result.file_content.content
LineWidth ==
    LET Width[i \in 0..Len(BIR_2307_FIELDS)] ==
            IF i = 0 THEN 0 ELSE Width[i - 1] + BIR_2307_FIELDS[i].width
    IN Width[Len(BIR_2307_FIELDS)]
LineAt(k) ==
    SubSeq(DatText, (k - 1) * (LineWidth + 2) + 1,
           (k - 1) * (LineWidth + 2) + LineWidth)

\* a number written with leading zeros in a field of n digits
RECURSIVE Padded(_, _)
Padded(number, n) ==
    IF n = 0 THEN <<>>
    ELSE Padded(number \div 10, n - 1) \o <<DigitSeq[(number % 10) + 1]>>

\* C27: for a list of n extracted records the DAT content has exactly n
\* lines joined by CRLF with no leading or trailing terminator (empty content
\* for n = 0), the k-th line carries seq_no k (1-based, consecutive, in
\* extraction order), and every line carries the same returning_period whose
\* month is 3 x quarter, equal to the month of the parsed date_to.
C27_DatSequencing ==
    IsDat =>
        LET n == Len(WhtRecords)
            quarter == DigitValue(call.params.period[Len(call.params.period)])
        IN /\ Len(DatText) = IF n = 0 THEN 0 ELSE n * LineWidth + 2 * (n - 1)
           /\ \A p \in 1..Len(DatText) :
                 \/ /\ p % (LineWidth + 2) = LineWidth + 1
                    /\ DatText[p] = "\r"
                 \/ /\ p % (LineWidth + 2) = 0
                    /\ DatText[p] = "\n"
                 \/ /\ p % (LineWidth + 2) \in 1..LineWidth
                    /\ DatText[p] \notin {"\r", "\n"}
           /\ \A k \in 1..n :
                 /\ SubSeq(LineAt(k), 7, 16) = Padded(k, 10)
                 /\ SubSeq(LineAt(k), 1, 6) = SubSeq(LineAt(1), 1, 6)
                 /\ SubSeq(LineAt(k), 1, 2) = Padded(3 * quarter, 2)
                 /\ SubSeq(LineAt(k), 1, 2) = Padded(call.trace.date_to.m, 2)
                 /\ SubSeq(LineAt(k), 204, 217)
                       = AmountField(WhtRecords[k].tax_amount)

\* two records of one bill in the first quarter: two lines numbered 1 and 2,
\* parted by one CRLF, for the period 032025
C27_Witness ==
    /\ IsDat
    /\ Len(WhtRecords) = 2
    /\ Len(DatText) = 2 * LineWidth + 2
    /\ DatText[LineWidth + 1] = "\r"
    /\ DatText[LineWidth + 2] = "\n"
    /\ SubSeq(LineAt(2), 1, 6) = <<"0", "3", "2", "0", "2", "5">>
    /\ LineAt(2)[16] = "2"
    /\ WhtRecords[1].tax_amount # WhtRecords[2].tax_amount

\* the feature flag execute tests for a tool
ToolFlag(tool, cfg) ==
    CASE tool = "get_trial_balance" -> cfg.enable_trial_balance
      [] tool = "create_journal_entry" -> cfg.enable_journal_entry
      [] tool = "generate_bir_2307" -> cfg.enable_bir_tools

DisabledErrors ==
    { "Journal Entry tool is disabled", "Trial Balance tool is disabled",
      "BIR Compliance tools are disabled" }

IsList == call.tool = "list_available_tools"

\* execute refuses a call for the feature flag exactly when the flag is off
ExecuteRefusesByFlag ==
    (call.tool \in ToolNames /\ call.trace.flag_checked) =>
        (call.error \in DisabledErrors <=> ~ToolFlag(call.tool, CallConfig))

\* a tool is listed exactly when its flag is on
ListedByFlag(tool) ==
    IsList => (tool \in call.available <=> ToolFlag(tool, CallConfig))

\* the listing agrees with execution for the two tools whose flag is named
\* after them
C28_ListingOfNamedFlags ==
    /\ ExecuteRefusesByFlag
    /\ ListedByFlag("get_trial_balance")
    /\ ListedByFlag("create_journal_entry")

\* C28: tool listing agrees with tool execution: for every company
\* configuration and each of the three tools, list_available_tools includes
\* the tool iff execute of that tool is not refused for a disabled feature
\* flag; in particular generate_bir_2307 is not listed when enable_bir_tools
\* is false.
C28_ListingAgreesWithExecution ==
    /\ ExecuteRefusesByFlag
    /\ \A tool \in ToolNames : ListedByFlag(tool)

\* the requests of the company of the session that have ended
Ended == { p \in Procs : procs[p].pc = "done" }

\* every request that has ended returned an envelope, and no request met a
\* second configuration record of its company
C29_EveryRequestEnvelope ==
    \A p \in Ended : procs[p].outcome \in {"success", "failure"}

\* the company never has more than one configuration record, and has one
\* once a request has ended with an envelope
C29_OneConfigRecord ==
    /\ \A c \in Companies : Len(config[c]) <= 1
    /\ \A p \in Ended :
          procs[p].outcome \in {"success", "failure"}
              => Len(config[CompanyId(procs[p].params)]) = 1

\* the audit log only grows, by rows added at its end
C29_LogOnlyGrows ==
    [][/\ Len(log') >= Len(log)
       /\ SubSeq(log', 1, Len(log)) = log]_vars

\* C29: concurrent tool invocations need no coordination: for any
\* interleaving of two execute calls for the same company that has no
\* configuration record yet, both calls complete with an envelope and exactly
\* one mcp.finance.config record exists for the company afterwards
\* (get_config's search-then-create never yields two records or a uniqueness
\* failure); the audit log only ever grows by inserts.
C29_NoCoordinationNeeded ==
    /\ C29_EveryRequestEnvelope
    /\ C29_OneConfigRecord

\* the state the audit record of the call in flight must have
ExpectedState ==
    IF call.outcome = "failure" THEN "failed"
    ELSE IF IsJe /\ call.requires_approval THEN "pending"
    ELSE "executed"

\* a call of a tool that returned an envelope and wrote its audit record
Audited ==
    /\ call.tool \in ToolNames
    /\ call.outcome \in {"success", "failure"}
    /\ call.logged = 1

\* the audit state matches the outcome for every call whose exception has a
\* message
C30_StateMatchesWithMessage ==
    (Audited /\ (call.outcome = "failure" => call.error # "")) =>
        /\ WrittenRecord.state = ExpectedState
        /\ call.outcome = "failure" => WrittenRecord.error_message # ""

\* C30: every audit record written for a call that returned a failure
\* envelope has state failed and a non-empty error message (also when the
\* caught exception has an empty message), and every record written for a
\* successful call has state executed, or pending when approval is required;
\* no record for a failed call is ever in state executed or pending.
C30_AuditStateMatchesOutcome ==
    Audited =>
        /\ WrittenRecord.state = ExpectedState
        /\ call.outcome = "failure" => WrittenRecord.error_message # ""

====
